---- MODULE Spec2Model ----
(***************************************************************************)
(* Prediction-cycle pipeline of viet_lott_analysis: the results store      *)
(* (src/utils/supabase_client.py), the cycle manager                       *)
(* (src/pipeline/cycle_manager.py), generate_prediction                    *)
(* (src/pipeline/prediction_generator.py) and check_result                 *)
(* (src/pipeline/result_checker.py); the retrain decision                  *)
(* (src/pipeline/retrain_evaluator.py) with the ensemble weights           *)
(* (src/models/ensemble_predictor.py, src/models/model_loader.py) and the  *)
(* zone-balanced pick (src/models/statistical/position_bias.py).           *)
(*                                                                         *)
(* Every store call is one request to the store, hence one atomic step of  *)
(* the invocation that makes it.  Spec runs one invocation at a time to    *)
(* completion (the cron-driven pipeline); SpecConc lets two invocations    *)
(* interleave their store requests.  SpecRetrain adds evaluate_and_retrain *)
(* to the sequential pipeline of one variant, SpecWeights repeats it on a  *)
(* fresh store, and SpecPure applies the pure functions to drawn inputs.   *)
(* Weights are counted in thousandths (0.40 = 400).                        *)
(***************************************************************************)
EXTENDS Integers, Sequences, FiniteSets, Bags, TLC

VARIABLES
    lottery_results,   \* table lottery_results: set of draw rows
    cycles,            \* table prediction_cycles: sequence of rows, id = index
    predictions,       \* table predictions: bag of rows
    match_results,     \* table match_results: bag of rows
    pc,                \* per invocation slot: the store request it makes next
    call,              \* per invocation slot: operation and arguments
    loc,               \* per invocation slot: local variables of the handler
    ret,               \* per invocation slot: what the last call returned
    budget,            \* invocations the interleaved runs may still start
    model_configs,     \* table model_configs: ensemble_weight of the active row of each model
    training_logs,     \* table model_training_logs: sequence of rows
    eval_ret,          \* what the last evaluate_and_retrain was given and returned
    probe              \* the last pure-function application: operation, input, output

store == <<lottery_results, cycles, predictions, match_results>>
retrain_store == <<model_configs, training_logs>>
vars == <<lottery_results, cycles, predictions, match_results, pc, call, loc, ret, budget,
          model_configs, training_logs, eval_ret, probe>>

\* ------------------------------------------------------------------ bounds
MaxPredictions == 2     \* generate_prediction is not started beyond this many stored predictions
MaxConcCalls == 5       \* invocations started in an interleaved run
MaxRetrainCalls == 7    \* generate_prediction / check_result invocations in a run with evaluation
MaxPipelineEvaluations == 2  \* evaluate_and_retrain calls in a run of the pipeline
MaxEvaluations == 7     \* evaluate_and_retrain calls in a run on a fresh store
MaxCandidates == 5      \* length of a candidate list handed to pick_balanced
MaxHistory == 3         \* draws in a history handed to the analyzers and scorers

Procs == {"p1", "p2"}
LotteryTypes == {"power_655", "lotto_535"}
NoSession == "none"     \* draw_session NULL / session argument None

\* ------------------------------------------------------------------ inputs
\* Draws the crawler may persist (one row per lottery_type, draw_id, draw_session).
DrawPool ==
    { [lottery_type |-> "power_655", draw_id |-> 1, draw_session |-> NoSession,
       numbers |-> <<5, 9, 22, 30, 41, 49>>, jackpot2 |-> 14],
      [lottery_type |-> "power_655", draw_id |-> 2, draw_session |-> NoSession,
       numbers |-> <<1, 2, 3, 4, 6, 7>>, jackpot2 |-> 10],
      [lottery_type |-> "lotto_535", draw_id |-> 1, draw_session |-> "AM",
       numbers |-> <<3, 8, 15, 21, 30>>, jackpot2 |-> 7] }

DrawIds == {1, 2}               \* draw_id arguments of check_result
SessionArgs == {NoSession, "PM"}  \* draw_session arguments of check_result

\* Pick sets the ensemble may return for a variant (numbers, special_number; 0 = no special).
Candidates(lt) ==
    IF lt = "power_655"
    THEN { [numbers |-> <<5, 14, 22, 33, 41, 52>>, special_number |-> 0],
           [numbers |-> <<11, 12, 13, 17, 18, 19>>, special_number |-> 0] }
    ELSE { [numbers |-> <<3, 8, 15, 21, 30>>, special_number |-> 7] }

\* ------------------------------------------------------------------ rows
NoCycle == [id |-> 0, lottery_type |-> "none", cycle_number |-> 0, status |-> "none",
            draws_tracked |-> 0, max_draws |-> 0]
NoPrediction == [cycle_id |-> 0, numbers |-> <<>>, special_number |-> 0]
NoResult == [lottery_type |-> "none", draw_id |-> 0, draw_session |-> NoSession,
             numbers |-> <<>>, jackpot2 |-> 0]

NoCall == [op |-> "none", lottery_type |-> "none", draw_id |-> 0, draw_session |-> NoSession]
NoLoc == [numbers |-> <<>>, special_number |-> 0, cycle |-> NoCycle, cycle_number |-> 0,
          max_draws |-> 0, prev |-> NoCycle, prediction |-> NoPrediction,
          result |-> NoResult, current |-> 0, updated |-> NoCycle]
NoRet == [op |-> "none", kind |-> "none", error |-> "none", lottery_type |-> "none",
          cycle_id |-> 0,
          cycle_number |-> 0, draw_number |-> 0, draws_tracked |-> 0, max_draws |-> 0,
          cycle_complete |-> FALSE, matched_count |-> 0, prize_level |-> "none",
          weights |-> <<>>]
NoEval == [lottery_type |-> "none", cycle_id |-> 0, min_hits_3plus |-> 0,
           hit_3plus |-> 0, hit_4plus |-> 0, max_match |-> 0, should_retrain |-> FALSE]
NoProbe == [op |-> "none"]

\* config["ensemble"]["weights"]: the defaults the code falls back to, which
\* 03_upload_models.py also copies into model_configs
ConfigWeights == [lstm |-> 400, xgboost |-> 350, statistical |-> 250]

SetOf(s) == { s[i] : i \in DOMAIN s }

Init ==
    /\ lottery_results = {}
    /\ cycles = <<>>
    /\ predictions = EmptyBag
    /\ match_results = EmptyBag
    /\ pc = [p \in Procs |-> "idle"]
    /\ call = [p \in Procs |-> NoCall]
    /\ loc = [p \in Procs |-> NoLoc]
    /\ ret = [p \in Procs |-> NoRet]
    /\ budget = 0
    /\ model_configs = ConfigWeights
    /\ training_logs = <<>>
    /\ eval_ret = NoEval
    /\ probe = NoProbe

Quiet(p) == pc[p] \in {"idle", "done"}

\* ------------------------------------------------------------------ lottery_results
\* upsert on (lottery_type, draw_id, draw_session): a row with the same key is replaced.
UpsertLotteryResult ==
    \E record \in DrawPool :
        /\ record \notin lottery_results
        /\ lottery_results' =
               { r \in lottery_results :
                    ~ ( /\ r.lottery_type = record.lottery_type
                        /\ r.draw_id = record.draw_id
                        /\ r.draw_session = record.draw_session ) } \cup {record}
        /\ UNCHANGED <<cycles, predictions, match_results, pc, call, loc, ret>>

\* Faulty variant of the next definition: the lottery_type filter is dropped.
get_recent_results_any_type(lt) == lottery_results

\* .eq("lottery_type", lottery_type): the stored draws of the variant
get_recent_results(lt) == { r \in lottery_results : r.lottery_type = lt }

\* Faulty variant of the next definition: the session filter is dropped.
get_result_by_draw_id_any_session(lt, draw_id, session) ==
    { r \in lottery_results : r.lottery_type = lt /\ r.draw_id = draw_id }

\* .eq(lottery_type).eq(draw_id)[.eq(draw_session)]: the matching rows
get_result_by_draw_id(lt, draw_id, session) ==
    { r \in lottery_results :
        /\ r.lottery_type = lt
        /\ r.draw_id = draw_id
        /\ (session # NoSession => r.draw_session = session) }

\* ------------------------------------------------------------------ helpers
\* .maybe_single(): no row -> None, one row -> the row, several rows -> the request raises
MaybeSingleRaises(rows) == Cardinality(rows) > 1
MaybeSingle(rows, none) == IF rows = {} THEN none ELSE CHOOSE r \in rows : TRUE

\* The handler returns r (or lets an exception escape): its locals are gone.
Return(p, r) ==
    /\ pc' = [pc EXCEPT ![p] = "done"]
    /\ call' = [call EXCEPT ![p] = NoCall]
    /\ loc' = [loc EXCEPT ![p] = NoLoc]
    /\ ret' = [ret EXCEPT ![p] = r]

\* The handler goes on to its next store request with updated locals.
Goto(p, label, locals) ==
    /\ pc' = [pc EXCEPT ![p] = label]
    /\ loc' = [loc EXCEPT ![p] = locals]
    /\ UNCHANGED <<call, ret>>

\* An exception escapes the handler / the handler returns {"success": False, "error": msg}.
RaisedIn(op, lt) == [NoRet EXCEPT !.op = op, !.kind = "raised", !.lottery_type = lt]
FailureIn(op, lt, err) ==
    [NoRet EXCEPT !.op = op, !.kind = "failure", !.error = err, !.lottery_type = lt]
Raised(p) == RaisedIn(call[p].op, call[p].lottery_type)
Failure(p, err) == FailureIn(call[p].op, call[p].lottery_type, err)

\* ------------------------------------------------------------------ prediction_cycles
DefaultMaxDraws == 5
ShortMaxDraws == 3
HitThreshold == 3

\* Faulty variant of the next definition: the status filter is dropped.
get_active_cycle_any_status(lt) ==
    { cycles[i] : i \in { j \in DOMAIN cycles : cycles[j].lottery_type = lt } }

\* .eq("lottery_type", lottery_type).eq("status", "active")
get_active_cycle(lt) ==
    { cycles[i] : i \in { j \in DOMAIN cycles :
                            cycles[j].lottery_type = lt /\ cycles[j].status = "active" } }

get_cycle_by_number(lt, n) ==
    { cycles[i] : i \in { j \in DOMAIN cycles :
                            cycles[j].lottery_type = lt /\ cycles[j].cycle_number = n } }

\* Faulty variant of the next definition: the lottery_type filter is dropped.
get_next_cycle_number_all_types(lt) ==
    LET nums == { cycles[i].cycle_number : i \in DOMAIN cycles }
    IN  IF nums # {} THEN (CHOOSE n \in nums : \A m \in nums : m <= n) + 1 ELSE 1

\* order by cycle_number desc, limit 1, + 1; 1 when the variant has no cycle
get_next_cycle_number(lt) ==
    LET nums == { cycles[i].cycle_number :
                    i \in { j \in DOMAIN cycles : cycles[j].lottery_type = lt } }
    IN  IF nums # {} THEN (CHOOSE n \in nums : \A m \in nums : m <= n) + 1 ELSE 1

\* .eq("cycle_id", cycle_id): the match rows of the cycle
get_match_results_for_cycle(cycle_id) ==
    [r \in { x \in DOMAIN match_results : x.cycle_id = cycle_id } |-> match_results[r]]

\* Faulty variant of the next definition: counts only draws with more than 3 matches.
Hit3PlusStrict(rows) ==
    BagCardinality([r \in { x \in DOMAIN rows : x.matched_count > HitThreshold } |-> rows[r]])

\* sum(1 for row in match_rows if row.get("matched_count", 0) >= 3)
Hit3Plus(rows) ==
    BagCardinality([r \in { x \in DOMAIN rows : x.matched_count >= HitThreshold } |-> rows[r]])

\* max_draws = 5 if hit_3plus >= 1 else 3
DynamicMaxDraws(hit_3plus) == IF hit_3plus >= 1 THEN DefaultMaxDraws ELSE ShortMaxDraws

\* The row create_prediction_cycle inserts.
NewCycleRow(lt, cycle_number, max_draws) ==
    [id |-> Len(cycles) + 1, lottery_type |-> lt, cycle_number |-> cycle_number,
     status |-> "active", draws_tracked |-> 0, max_draws |-> max_draws]

\* Faulty variant of the next definition: a store without the uniqueness guarantee.
StoreAcceptsAnyCycle(row) == TRUE

\* The store's guarantee (a): it accepts no second active cycle of a variant.
StoreAcceptsCycle(row) ==
    row.status = "active" => get_active_cycle(row.lottery_type) = {}

\* ------------------------------------------------------------------ prize levels
\* Faulty variant of the next definition: the 5-match tier is not split.
_prize_655_unsplit(matched_count, jackpot2_matched) ==
    IF matched_count = 6 THEN "JACKPOT_1"
    ELSE IF matched_count = 5 THEN "PRIZE_1"
    ELSE IF matched_count = 5 /\ jackpot2_matched THEN "JACKPOT_2"
    ELSE IF matched_count = 4 THEN "PRIZE_2"
    ELSE IF matched_count = 3 THEN "PRIZE_3"
    ELSE "NO_PRIZE"

_prize_655(matched_count, jackpot2_matched) ==
    IF matched_count = 6 THEN "JACKPOT_1"
    ELSE IF matched_count = 5 /\ jackpot2_matched THEN "JACKPOT_2"
    ELSE IF matched_count = 5 THEN "PRIZE_1"
    ELSE IF matched_count = 4 THEN "PRIZE_2"
    ELSE IF matched_count = 3 THEN "PRIZE_3"
    ELSE "NO_PRIZE"

_prize_645(matched_count) ==
    IF matched_count = 6 THEN "JACKPOT"
    ELSE IF matched_count = 5 THEN "PRIZE_1"
    ELSE IF matched_count = 4 THEN "PRIZE_2"
    ELSE IF matched_count = 3 THEN "PRIZE_3"
    ELSE "NO_PRIZE"

_prize_535(matched_count, special_matched) ==
    IF matched_count = 5 /\ special_matched THEN "JACKPOT"
    ELSE IF matched_count = 5 THEN "PRIZE_1"
    ELSE IF matched_count = 4 /\ special_matched THEN "PRIZE_2"
    ELSE IF matched_count = 4 THEN "PRIZE_3"
    ELSE IF matched_count = 3 /\ special_matched THEN "PRIZE_4"
    ELSE IF matched_count = 3 THEN "PRIZE_5"
    ELSE IF matched_count = 2 /\ special_matched THEN "PRIZE_KK"
    ELSE "NO_PRIZE"

RECURSIVE SortSet(_)
\* sorted(S): the ascending list of the members of S
SortSet(S) ==
    IF S = {} THEN <<>>
    ELSE LET m == CHOOSE x \in S : \A y \in S : x <= y
         IN  <<m>> \o SortSet(S \ {m})

\* Faulty variant of the next definition: two absent specials compare equal.
SpecialMatchedAbsentEqual(lt, prediction, result) ==
    IF lt = "power_655"
    THEN result.jackpot2 # 0 /\ result.jackpot2 \in SetOf(prediction.numbers)
    ELSE IF lt = "lotto_535"
    THEN prediction.special_number = result.jackpot2
    ELSE FALSE

\* Step 4 of check_result: matched, special_matched, prize_level (0 = no special number)
SpecialMatched(lt, prediction, result) ==
    IF lt = "power_655"
    THEN result.jackpot2 # 0 /\ result.jackpot2 \in SetOf(prediction.numbers)
    ELSE IF lt = "lotto_535"
    THEN IF prediction.special_number # 0 /\ result.jackpot2 # 0
         THEN prediction.special_number = result.jackpot2
         ELSE FALSE
    ELSE FALSE

PrizeLevel(lt, matched_count, special_matched) ==
    IF lt = "power_655" THEN _prize_655(matched_count, special_matched)
    ELSE IF lt = "mega_645" THEN _prize_645(matched_count)
    ELSE IF lt = "lotto_535" THEN _prize_535(matched_count, special_matched)
    ELSE "NO_PRIZE"

\* Faulty variant of the next definition: numbers count only at equal positions.
MatchedByPosition(predicted_nums, actual_numbers) ==
    SortSet({ predicted_nums[i] : i \in { j \in DOMAIN predicted_nums \cap DOMAIN actual_numbers :
                                             predicted_nums[j] = actual_numbers[j] } })

\* matched = sorted(set(predicted_nums) & set(actual_numbers))
Matched(predicted_nums, actual_numbers) ==
    SortSet(SetOf(predicted_nums) \cap SetOf(actual_numbers))

\* The record check_result hands to insert_match_result.
MatchRecord(lt, draw_id, cycle, prediction, result) ==
    LET matched == Matched(prediction.numbers, result.numbers)
        special_matched == SpecialMatched(lt, prediction, result)
    IN  [cycle_id |-> cycle.id,
         draw_id |-> draw_id,
         draw_session |-> result.draw_session,
         draw_number |-> cycle.draws_tracked + 1,
         predicted_nums |-> prediction.numbers,
         actual_numbers |-> result.numbers,
         matched_numbers |-> matched,
         matched_count |-> Len(matched),
         special_matched |-> special_matched,
         prize_level |-> PrizeLevel(lt, Len(matched), special_matched)]

\* ------------------------------------------------------------------ predictions, match_results
get_prediction_for_cycle(cycle_id) ==
    [r \in { x \in DOMAIN predictions : x.cycle_id = cycle_id } |-> predictions[r]]

SameMatchKey(a, b) ==
    /\ a.cycle_id = b.cycle_id
    /\ a.draw_id = b.draw_id
    /\ a.draw_session = b.draw_session

\* Faulty variant of the next definition: a plain insert instead of the upsert.
insert_match_result_plain(rows, record) == rows (+) SetToBag({record})

\* upsert(record, on_conflict="cycle_id,draw_id,draw_session")
insert_match_result(rows, record) ==
    [r \in { x \in DOMAIN rows : ~SameMatchKey(x, record) } |-> rows[r]] (+) SetToBag({record})

\* ------------------------------------------------------------------ generate_prediction
\* Steps 1-4: fetch the history, fail on an empty one, let the ensemble pick.
generate_prediction(p, lt) ==
    /\ Quiet(p)
    /\ BagCardinality(predictions) < MaxPredictions
    /\ IF get_recent_results(lt) = {}
       THEN Return(p, RaisedIn("generate", lt))
       ELSE \E c \in Candidates(lt) :
            /\ pc' = [pc EXCEPT ![p] = "goc_active"]
            /\ call' = [call EXCEPT ![p] =
                          [NoCall EXCEPT !.op = "generate", !.lottery_type = lt]]
            /\ loc' = [loc EXCEPT ![p] = [NoLoc EXCEPT !.numbers = c.numbers,
                                            !.special_number = c.special_number]]
            /\ ret' = [ret EXCEPT ![p] = NoRet]
    /\ UNCHANGED store

\* Faulty variant of the next definition: the early return is missing.
AfterLookupAlwaysCreate(rows) == "goc_number"

\* if cycle: return cycle (to generate_prediction, which inserts the prediction next);
\* otherwise go on to create one
AfterLookup(rows) == IF rows # {} THEN "gen_insert" ELSE "goc_number"

\* get_or_create_cycle: cycle = db.get_active_cycle(lottery_type); if cycle: return cycle
GocGetActive(p) ==
    /\ pc[p] = "goc_active"
    /\ LET rows == get_active_cycle(call[p].lottery_type)
       IN  IF MaybeSingleRaises(rows)
           THEN Return(p, Raised(p))
           ELSE Goto(p, AfterLookup(rows),
                     [loc[p] EXCEPT !.cycle = MaybeSingle(rows, NoCycle)])
    /\ UNCHANGED store

\* cycle_number = db.get_next_cycle_number(lottery_type); max_draws = 5
GocNextNumber(p) ==
    /\ pc[p] = "goc_number"
    /\ LET n == get_next_cycle_number(call[p].lottery_type)
       IN  Goto(p, IF n > 1 THEN "goc_prev" ELSE "goc_create",
                [loc[p] EXCEPT !.cycle_number = n, !.max_draws = DefaultMaxDraws])
    /\ UNCHANGED store

\* prev_cycle = db.get_cycle_by_number(lottery_type, cycle_number - 1)
GocPrevCycle(p) ==
    /\ pc[p] = "goc_prev"
    /\ LET rows == get_cycle_by_number(call[p].lottery_type, loc[p].cycle_number - 1)
       IN  IF MaybeSingleRaises(rows)
           THEN Return(p, Raised(p))
           ELSE Goto(p, IF rows # {} THEN "goc_matches" ELSE "goc_create",
                     [loc[p] EXCEPT !.prev = MaybeSingle(rows, NoCycle)])
    /\ UNCHANGED store

\* match_rows = db.get_match_results_for_cycle(prev_cycle["id"]); hit_3plus; max_draws
GocPrevMatches(p) ==
    /\ pc[p] = "goc_matches"
    /\ Goto(p, "goc_create",
            [loc[p] EXCEPT !.max_draws =
                DynamicMaxDraws(Hit3Plus(get_match_results_for_cycle(loc[p].prev.id)))])
    /\ UNCHANGED store

\* cycle = db.create_prediction_cycle(lottery_type, cycle_number, model_version, max_draws)
GocCreate(p) ==
    /\ pc[p] = "goc_create"
    /\ LET row == NewCycleRow(call[p].lottery_type, loc[p].cycle_number, loc[p].max_draws)
       IN  IF StoreAcceptsCycle(row)
           THEN /\ cycles' = Append(cycles, row)
                /\ Goto(p, "gen_insert", [loc[p] EXCEPT !.cycle = row])
           ELSE /\ Return(p, Raised(p))
                /\ UNCHANGED cycles
    /\ UNCHANGED <<lottery_results, predictions, match_results>>

\* EnsemblePredictor.__init__: the config weights (thousandths), each divided by their
\* total when it is more than 0.01 off 1 and kept otherwise; exact quotients num / den
EnsemblePredictor_init(w) ==
    LET total == w.lstm + w.xgboost + w.statistical
        off == IF total >= 1000 THEN total - 1000 ELSE 1000 - total
        den == IF off > 10 THEN total ELSE 1000
    IN  [w_lstm |-> [num |-> w.lstm, den |-> den],
         w_xgb |-> [num |-> w.xgboost, den |-> den],
         w_stat |-> [num |-> w.statistical, den |-> den]]

\* ensemble.w_lstm, ensemble.w_xgb, ensemble.w_stat of a new ensemble, to the thousandth
EnsembleWeights(w) ==
    LET e == EnsemblePredictor_init(w)
    IN  [lstm |-> (1000 * e.w_lstm.num) \div e.w_lstm.den,
         xgboost |-> (1000 * e.w_xgb.num) \div e.w_xgb.den,
         statistical |-> (1000 * e.w_stat.num) \div e.w_stat.den]

\* load_ensemble: config = get_model_config(lottery_type); EnsemblePredictor(config)
load_ensemble(lt) == EnsembleWeights(ConfigWeights)

\* The row insert_prediction inserts.
NewPredictionRow(cycle_id, numbers, special_number) ==
    [cycle_id |-> cycle_id, numbers |-> numbers, special_number |-> special_number]

\* db.insert_prediction(cycle_id=cycle["id"], ...); return result
GenInsertPrediction(p) ==
    /\ pc[p] = "gen_insert"
    /\ predictions' = predictions (+) SetToBag({
           NewPredictionRow(loc[p].cycle.id, loc[p].numbers, loc[p].special_number)})
    /\ Return(p, [NoRet EXCEPT !.op = "generate", !.kind = "success",
                                !.lottery_type = call[p].lottery_type,
                                !.cycle_id = loc[p].cycle.id,
                                !.cycle_number = loc[p].cycle.cycle_number,
                                !.weights = load_ensemble(call[p].lottery_type)])
    /\ UNCHANGED <<lottery_results, cycles, match_results>>

\* ------------------------------------------------------------------ check_result
\* Step 1: cycle = db.get_active_cycle(lottery_type); if not cycle: return failure
check_result(p, lt, draw_id, draw_session) ==
    /\ Quiet(p)
    /\ LET rows == get_active_cycle(lt)
       IN  IF MaybeSingleRaises(rows)
           THEN Return(p, RaisedIn("check", lt))
           ELSE IF rows = {}
           THEN Return(p, FailureIn("check", lt, "NoActiveCycle"))
           ELSE /\ pc' = [pc EXCEPT ![p] = "chk_prediction"]
                /\ call' = [call EXCEPT ![p] =
                              [op |-> "check", lottery_type |-> lt, draw_id |-> draw_id,
                               draw_session |-> draw_session]]
                /\ loc' = [loc EXCEPT ![p] =
                             [NoLoc EXCEPT !.cycle = MaybeSingle(rows, NoCycle)]]
                /\ ret' = [ret EXCEPT ![p] = NoRet]
    /\ UNCHANGED store

\* Step 2: prediction = db.get_prediction_for_cycle(cycle["id"])
ChkPrediction(p) ==
    /\ pc[p] = "chk_prediction"
    /\ LET rows == get_prediction_for_cycle(loc[p].cycle.id)
       IN  IF BagCardinality(rows) > 1
           THEN Return(p, Raised(p))
           ELSE IF rows = EmptyBag
           THEN Return(p, Failure(p, "NoPrediction"))
           ELSE Goto(p, "chk_result",
                     [loc[p] EXCEPT !.prediction = MaybeSingle(DOMAIN rows, NoPrediction)])
    /\ UNCHANGED store

\* Step 3: result = db.get_result_by_draw_id(lottery_type, draw_id, session=draw_session)
ChkResult(p) ==
    /\ pc[p] = "chk_result"
    /\ LET rows == get_result_by_draw_id(call[p].lottery_type, call[p].draw_id,
                                         call[p].draw_session)
       IN  IF MaybeSingleRaises(rows)
           THEN Return(p, Raised(p))
           ELSE IF rows = {}
           THEN Return(p, Failure(p, "DrawNotFound"))
           ELSE Goto(p, "chk_insert", [loc[p] EXCEPT !.result = MaybeSingle(rows, NoResult)])
    /\ UNCHANGED store

\* Steps 4-5: compute the match and db.insert_match_result({...})
ChkInsertMatch(p) ==
    /\ pc[p] = "chk_insert"
    /\ match_results' =
           insert_match_result(match_results,
               MatchRecord(call[p].lottery_type, call[p].draw_id, loc[p].cycle,
                           loc[p].prediction, loc[p].result))
    /\ Goto(p, "adv_read", loc[p])
    /\ UNCHANGED <<lottery_results, cycles, predictions>>

\* ------------------------------------------------------------------ advance_cycle
\* increment_draws_tracked, first request: select draws_tracked of the cycle
AdvRead(p) ==
    /\ pc[p] = "adv_read"
    /\ Goto(p, "adv_write",
            [loc[p] EXCEPT !.current = cycles[loc[p].cycle.id].draws_tracked])
    /\ UNCHANGED store

\* new_count = current["draws_tracked"] + 1
NewCount(current) == current + 1

\* increment_draws_tracked, second request: update draws_tracked = new_count
AdvWrite(p) ==
    /\ pc[p] = "adv_write"
    /\ LET id == loc[p].cycle.id
           row == [cycles[id] EXCEPT !.draws_tracked = NewCount(loc[p].current)]
       IN  /\ cycles' = [cycles EXCEPT ![id] = row]
           /\ Goto(p, "adv_active", [loc[p] EXCEPT !.updated = row])
    /\ UNCHANGED <<lottery_results, predictions, match_results>>

\* The dict check_result returns on success.
CheckSuccess(p, updated_cycle) ==
    LET m == MatchRecord(call[p].lottery_type, call[p].draw_id, loc[p].cycle,
                         loc[p].prediction, loc[p].result)
    IN  [op |-> "check", kind |-> "success", error |-> "none",
         lottery_type |-> call[p].lottery_type,
         cycle_id |-> loc[p].cycle.id,
         cycle_number |-> loc[p].cycle.cycle_number,
         draw_number |-> m.draw_number,
         draws_tracked |-> updated_cycle.draws_tracked,
         max_draws |-> updated_cycle.max_draws,
         cycle_complete |-> (updated_cycle.status = "completed"),
         matched_count |-> m.matched_count,
         prize_level |-> m.prize_level]

\* Faulty variant of the next definition: completes one draw late.
ReachedMaxStrict(draws_tracked, max_draws) == draws_tracked > max_draws

\* if updated["draws_tracked"] >= max_draws
ReachedMax(draws_tracked, max_draws) == draws_tracked >= max_draws

\* cycle = db.get_active_cycle(lottery_type); max_draws = cycle.get("max_draws", 5) if cycle else 5
AdvGetActive(p) ==
    /\ pc[p] = "adv_active"
    /\ LET rows == get_active_cycle(call[p].lottery_type)
           max_draws == IF rows # {} THEN MaybeSingle(rows, NoCycle).max_draws
                        ELSE DefaultMaxDraws
       IN  IF MaybeSingleRaises(rows)
           THEN Return(p, Raised(p))
           ELSE IF ReachedMax(loc[p].updated.draws_tracked, max_draws)
           THEN Goto(p, "adv_complete", loc[p])
           ELSE Return(p, CheckSuccess(p, loc[p].updated))
    /\ UNCHANGED store

\* completed = db.complete_cycle(cycle_id); return completed
AdvComplete(p) ==
    /\ pc[p] = "adv_complete"
    /\ LET id == loc[p].cycle.id
           row == [cycles[id] EXCEPT !.status = "completed"]
       IN  /\ cycles' = [cycles EXCEPT ![id] = row]
           /\ Return(p, CheckSuccess(p, row))
    /\ UNCHANGED <<lottery_results, predictions, match_results>>

\* ------------------------------------------------------------------ specifications
\* The store requests a started invocation goes on to make.
Continue(p) ==
    \/ GocGetActive(p)
    \/ GocNextNumber(p)
    \/ GocPrevCycle(p)
    \/ GocPrevMatches(p)
    \/ GocCreate(p)
    \/ GenInsertPrediction(p)
    \/ ChkPrediction(p)
    \/ ChkResult(p)
    \/ ChkInsertMatch(p)
    \/ AdvRead(p)
    \/ AdvWrite(p)
    \/ AdvGetActive(p)
    \/ AdvComplete(p)

AllQuiet == \A p \in Procs : Quiet(p)

\* One invocation at a time, each run to completion; the crawler runs between them.
Start(p) ==
    \/ \E lt \in LotteryTypes : generate_prediction(p, lt)
    \/ \E lt \in LotteryTypes, draw_id \in DrawIds, draw_session \in SessionArgs :
          check_result(p, lt, draw_id, draw_session)

Next ==
    /\ \/ Start("p1")
       \/ Continue("p1")
       \/ (AllQuiet /\ UpsertLotteryResult)
    /\ UNCHANGED budget
    /\ UNCHANGED <<model_configs, training_logs, eval_ret, probe>>

Spec == Init /\ [][Next]_vars

\* Two invocations for one variant whose store requests interleave, after the crawl.
ConcType == "power_655"

InitConc ==
    /\ lottery_results = DrawPool
    /\ cycles = <<>>
    /\ predictions = EmptyBag
    /\ match_results = EmptyBag
    /\ pc = [p \in Procs |-> "idle"]
    /\ call = [p \in Procs |-> NoCall]
    /\ loc = [p \in Procs |-> NoLoc]
    /\ ret = [p \in Procs |-> NoRet]
    /\ budget = MaxConcCalls
    /\ model_configs = ConfigWeights
    /\ training_logs = <<>>
    /\ eval_ret = NoEval
    /\ probe = NoProbe

StartConc(p) ==
    /\ budget > 0
    /\ budget' = budget - 1
    /\ \/ generate_prediction(p, ConcType)
       \/ \E draw_id \in DrawIds, draw_session \in SessionArgs :
             check_result(p, ConcType, draw_id, draw_session)

NextConc ==
    /\ \E p \in Procs :
          \/ StartConc(p)
          \/ (Continue(p) /\ UNCHANGED budget)
    /\ UNCHANGED <<model_configs, training_logs, eval_ret, probe>>

SpecConc == InitConc /\ [][NextConc]_vars

\* ------------------------------------------------------------------ evaluate_and_retrain
WEIGHT_STEP == 50
WEIGHT_MIN == 100
WEIGHT_MAX == 600

\* config["retrain_thresholds"]["min_draws_with_3plus_match"] values a variant may configure
Thresholds == {1, 2}

Max2(a, b) == IF a >= b THEN a ELSE b
Min2(a, b) == IF a <= b THEN a ELSE b

\* round(num / den, 3) in thousandths (a tie goes to the even thousandth)
Round3(num, den) ==
    LET q == (1000 * num) \div den
        r == (1000 * num) % den
    IN  IF 2 * r > den THEN q + 1
        ELSE IF 2 * r < den THEN q
        ELSE IF q % 2 = 0 THEN q ELSE q + 1

\* sum(1 for c in hit_counts if c >= k)
HitsAtLeast(rows, k) ==
    BagCardinality([r \in { x \in DOMAIN rows : x.matched_count >= k } |-> rows[r]])

\* max(hit_counts) if hit_counts else 0
MaxMatch(rows) ==
    IF DOMAIN rows = {} THEN 0
    ELSE LET counts == { r.matched_count : r \in DOMAIN rows }
         IN  CHOOSE m \in counts : \A c \in counts : c <= m

\* Faulty variant of the next definition: retrains at the threshold too.
ShouldRetrainAtThreshold(hit_3plus, min_hits_3plus) == hit_3plus <= min_hits_3plus

\* should_retrain = hit_3plus < min_hits_3plus
ShouldRetrain(hit_3plus, min_hits_3plus) == hit_3plus < min_hits_3plus

\* Faulty variant of the next definition: the LSTM weight is not lowered.
AdjustedWeightsNoPenalty(w) ==
    LET w_lstm == w.lstm
        w_xgb == Min2(WEIGHT_MAX, w.xgboost + WEIGHT_STEP)
        w_stat == w.statistical
        total == w_lstm + w_xgb + w_stat
    IN  [lstm |-> Round3(w_lstm, total),
         xgboost |-> Round3(w_xgb, total),
         statistical |-> Round3(w_stat, total)]

\* Shift the step from LSTM to XGBoost, clamp, normalize, round(new_w, 3).
AdjustedWeights(w) ==
    LET w_lstm == Max2(WEIGHT_MIN, w.lstm - WEIGHT_STEP)
        w_xgb == Min2(WEIGHT_MAX, w.xgboost + WEIGHT_STEP)
        w_stat == w.statistical
        total == w_lstm + w_xgb + w_stat
    IN  [lstm |-> Round3(w_lstm, total),
         xgboost |-> Round3(w_xgb, total),
         statistical |-> Round3(w_stat, total)]

\* Faulty variant of the next definition: the weights are adjusted on every call.
WeightsAfterAlways(should_retrain, w) == AdjustedWeights(w)

\* if should_retrain: update_model_weight(...) for each model; else: no weight is written
WeightsAfter(should_retrain, w) == IF should_retrain THEN AdjustedWeights(w) ELSE w

\* The row insert_training_log receives (old/new weights only when a retrain is triggered).
TrainingLog(lt, status, hit_3plus, max_match, min_hits_3plus, old, new) ==
    [lottery_type |-> lt, training_status |-> status,
     trigger_reason |-> [hit_3plus |-> hit_3plus, threshold |-> min_hits_3plus],
     performance_before |-> [hit_3plus |-> hit_3plus, max_match |-> max_match],
     old_params |-> old, new_params |-> new]

\* The whole handler: metrics, decision, weight update, audit log, returned summary.
evaluate_and_retrain(lt, cycle_id, min_hits_3plus) ==
    LET match_rows == get_match_results_for_cycle(cycle_id)
        hit_3plus == HitsAtLeast(match_rows, 3)
        hit_4plus == HitsAtLeast(match_rows, 4)
        max_match == MaxMatch(match_rows)
        should_retrain == ShouldRetrain(hit_3plus, min_hits_3plus)
        new_weights == AdjustedWeights(model_configs)
    IN  /\ model_configs' = WeightsAfter(should_retrain, model_configs)
        /\ IF should_retrain
           THEN training_logs' = Append(training_logs,
                    TrainingLog(lt, "triggered", hit_3plus, max_match, min_hits_3plus,
                                model_configs, new_weights))
           ELSE training_logs' = Append(training_logs,
                    TrainingLog(lt, "skipped", hit_3plus, max_match, 0, <<>>, <<>>))
        /\ eval_ret' = [lottery_type |-> lt, cycle_id |-> cycle_id,
                        min_hits_3plus |-> min_hits_3plus,
                        hit_3plus |-> hit_3plus, hit_4plus |-> hit_4plus,
                        max_match |-> max_match, should_retrain |-> should_retrain]
        /\ UNCHANGED <<store, pc, call, loc, ret, budget, probe>>

\* The sequential pipeline of one variant after the crawl, with the retrain decision
\* run between invocations on any of its cycles.
InitRetrain ==
    /\ lottery_results = DrawPool
    /\ cycles = <<>>
    /\ predictions = EmptyBag
    /\ match_results = EmptyBag
    /\ pc = [p \in Procs |-> "idle"]
    /\ call = [p \in Procs |-> NoCall]
    /\ loc = [p \in Procs |-> NoLoc]
    /\ ret = [p \in Procs |-> NoRet]
    /\ budget = MaxRetrainCalls
    /\ model_configs = ConfigWeights
    /\ training_logs = <<>>
    /\ eval_ret = NoEval
    /\ probe = NoProbe

StartRetrain(p) ==
    /\ budget > 0
    /\ budget' = budget - 1
    /\ \/ generate_prediction(p, ConcType)
       \/ \E draw_id \in DrawIds, draw_session \in SessionArgs :
             check_result(p, ConcType, draw_id, draw_session)

EvaluatePipeline ==
    /\ AllQuiet
    /\ Len(training_logs) < MaxPipelineEvaluations
    /\ \E cycle_id \in DOMAIN cycles, min_hits_3plus \in Thresholds :
          evaluate_and_retrain(ConcType, cycle_id, min_hits_3plus)

NextRetrain ==
    \/ /\ StartRetrain("p1") \/ (Continue("p1") /\ UNCHANGED budget)
       /\ UNCHANGED <<model_configs, training_logs, eval_ret, probe>>
    \/ EvaluatePipeline

SpecRetrain == InitRetrain /\ [][NextRetrain]_vars

\* The retrain decision repeated on a store without match records.
FreshCycleId == 1

EvaluateFresh ==
    /\ Len(training_logs) < MaxEvaluations
    /\ \E min_hits_3plus \in Thresholds :
          evaluate_and_retrain(ConcType, FreshCycleId, min_hits_3plus)

NextWeights == EvaluateFresh

SpecWeights == Init /\ [][NextWeights]_vars

\* ------------------------------------------------------------------ update_weights
\* EnsemblePredictor.update_weights: clamp each weight, then divide by the total.  The
\* quotients are kept exact: weight = num / den.
update_weights(lstm_w, xgb_w, stat_w) ==
    LET w_lstm == Max2(WEIGHT_MIN, Min2(WEIGHT_MAX, lstm_w))
        w_xgb == Max2(WEIGHT_MIN, Min2(WEIGHT_MAX, xgb_w))
        w_stat == Max2(WEIGHT_MIN, Min2(WEIGHT_MAX, stat_w))
        total == w_lstm + w_xgb + w_stat
    IN  [w_lstm |-> [num |-> w_lstm, den |-> total],
         w_xgb |-> [num |-> w_xgb, den |-> total],
         w_stat |-> [num |-> w_stat, den |-> total]]

\* ------------------------------------------------------------------ pick_balanced
\* position_balance of the 6/55 analyzer, in the order of the dict
Bands == << [zone |-> "low", lo |-> 1, hi |-> 18],
            [zone |-> "mid", lo |-> 19, hi |-> 36],
            [zone |-> "high", lo |-> 37, hi |-> 55] >>

\* get_zone: the first band that holds num, None ("none") when there is none
get_zone(num) ==
    LET holds == { i \in DOMAIN Bands : Bands[i].lo <= num /\ num <= Bands[i].hi }
    IN  IF holds = {} THEN "none"
        ELSE Bands[CHOOSE i \in holds : \A j \in holds : i <= j].zone

\* grouped[zone]: the candidates of the zone, in candidate order
Grouped(candidates, zone) == SelectSeq(candidates, LAMBDA num : get_zone(num) = zone)

\* Faulty variant of the next definition: the last entries of the zone, not the first.
TakeLast(nums, take) == SubSeq(nums, Len(nums) - Min2(take, Len(nums)) + 1, Len(nums))

\* nums[:take]
Take(nums, take) == SubSeq(nums, 1, Min2(take, Len(nums)))

RECURSIVE ZoneSelect(_, _, _, _)
\* for zone, nums in grouped.items(): take = target_per_zone + (1 if remainder > 0 else 0); ...
ZoneSelect(candidates, n, i, remainder) ==
    IF i > Len(Bands) THEN <<>>
    ELSE LET take == (n \div Len(Bands)) + (IF remainder > 0 THEN 1 ELSE 0)
         IN  Take(Grouped(candidates, Bands[i].zone), take)
                \o ZoneSelect(candidates, n, i + 1, Max2(0, remainder - 1))

RECURSIVE Fill(_, _, _)
\* while len(selected) < n: append the first candidate not in selected; the loop never
\* ends when there is none
Fill(candidates, selected, n) ==
    IF Len(selected) >= n THEN [diverges |-> FALSE, selected |-> selected]
    ELSE LET free == { i \in DOMAIN candidates : candidates[i] \notin SetOf(selected) }
         IN  IF free = {} THEN [diverges |-> TRUE, selected |-> selected]
             ELSE Fill(candidates,
                       Append(selected, candidates[CHOOSE i \in free : \A j \in free : i <= j]),
                       n)

RECURSIVE Sorted(_)
\* sorted(list): ascending, equal values kept
Sorted(list) ==
    IF list = <<>> THEN <<>>
    ELSE LET i == CHOOSE k \in DOMAIN list : \A j \in DOMAIN list : list[k] <= list[j]
         IN  <<list[i]>> \o Sorted(SubSeq(list, 1, i - 1) \o SubSeq(list, i + 1, Len(list)))

pick_balanced(candidates, n) ==
    LET filled == Fill(candidates, ZoneSelect(candidates, n, 1, n % Len(Bands)), n)
    IN  IF filled.diverges THEN [diverges |-> TRUE, picked |-> <<>>]
        ELSE [diverges |-> FALSE, picked |-> Sorted(SubSeq(filled.selected, 1, n))]

\* ------------------------------------------------------------------ scores
\* A score is a non-negative fraction num / den in lowest terms.
RECURSIVE GCD(_, _)
GCD(a, b) == IF b = 0 THEN a ELSE GCD(b, a % b)

Rat(num, den) ==
    IF num = 0 THEN [num |-> 0, den |-> 1]
    ELSE LET g == GCD(num, den) IN [num |-> num \div g, den |-> den \div g]

RatAdd(a, b) ==
    LET g == GCD(a.den, b.den)
    IN  Rat(a.num * (b.den \div g) + b.num * (a.den \div g), (a.den \div g) * b.den)

\* a - b for a >= b
RatSub(a, b) ==
    LET g == GCD(a.den, b.den)
    IN  Rat(a.num * (b.den \div g) - b.num * (a.den \div g), (a.den \div g) * b.den)

RatMul(a, b) ==
    LET g1 == GCD(a.num, b.den)
        g2 == GCD(b.num, a.den)
    IN  IF a.num = 0 \/ b.num = 0 THEN [num |-> 0, den |-> 1]
        ELSE [num |-> (a.num \div g1) * (b.num \div g2),
              den |-> (a.den \div g2) * (b.den \div g1)]

\* a / b for b > 0
RatDiv(a, b) == RatMul(a, [num |-> b.den, den |-> b.num])

RatLeq(a, b) ==
    LET g == GCD(a.den, b.den)
    IN  a.num * (b.den \div g) <= b.num * (a.den \div g)

\* max(scores.values())
MaxScore(scores) ==
    LET values == { scores[n] : n \in DOMAIN scores }
    IN  CHOOSE v \in values : \A u \in values : RatLeq(u, v)

\* max(scores.values()) or 1.0
MaxScoreOrOne(scores) ==
    LET m == MaxScore(scores) IN IF m.num = 0 THEN [num |-> 1, den |-> 1] ELSE m

\* {n: v / max_score for n, v in scores.items()}
Normalized(scores, max_score) == [n \in DOMAIN scores |-> RatDiv(scores[n], max_score)]

\* ------------------------------------------------------------------ FrequencyAnalyzer
\* Defaults of the constructors: window=100, weight_recency=0.6 (frequency), window=50 (gap).
FrequencyWindow == 100
WeightRecency == [num |-> 3, den |-> 5]
GapWindow == 50

\* Occurrences of num in a draw (`for num in draw` / `num in draw`).
Occurrences(draw, num) == Cardinality({ k \in DOMAIN draw : draw[k] = num })

RECURSIVE RecencySum(_, _, _, _)
\* for draw_idx, draw in enumerate(recent): recency_weight = weight_recency ** draw_idx;
\* scores[num] += recency_weight for each occurrence of num
RecencySum(recent, num, draw_idx, recency_weight) ==
    IF draw_idx >= Len(recent) THEN [num |-> 0, den |-> 1]
    ELSE RatAdd(RatMul([num |-> Occurrences(recent[draw_idx + 1], num), den |-> 1],
                       recency_weight),
                RecencySum(recent, num, draw_idx + 1, RatMul(recency_weight, WeightRecency)))

\* FrequencyAnalyzer.get_scores; history[: self.window] is the first `window` draws
FrequencyScores(history, lo, hi) ==
    LET recent == SubSeq(history, 1, Min2(FrequencyWindow, Len(history)))
        scores == [n \in lo..hi |-> RecencySum(recent, n, 0, [num |-> 1, den |-> 1])]
    IN  IF Len(recent) = 0
        THEN [raises |-> FALSE, scores |-> [n \in lo..hi |-> [num |-> 1, den |-> 1]]]
        ELSE [raises |-> FALSE, scores |-> Normalized(scores, MaxScoreOrOne(scores))]

\* ------------------------------------------------------------------ GapAnalyzer
\* GapAnalyzer.get_gaps: index of the first draw that holds num, window + 1 when none does
get_gaps(history, lo, hi) ==
    LET recent == SubSeq(history, 1, Min2(GapWindow, Len(history)))
    IN  [num \in lo..hi |->
            LET seen == { idx \in DOMAIN recent : Occurrences(recent[idx], num) > 0 }
            IN  IF seen = {} THEN GapWindow + 1
                ELSE (CHOOSE idx \in seen : \A j \in seen : idx <= j) - 1]

RECURSIVE SumValues(_, _, _)
\* sum(gaps.values())
SumValues(f, lo, hi) == IF lo > hi THEN 0 ELSE f[lo] + SumValues(f, lo + 1, hi)

\* GapAnalyzer.get_scores: g / avg_gap raises ZeroDivisionError when every gap is 0
GapScores(history, lo, hi) ==
    LET gaps == get_gaps(history, lo, hi)
        avg_gap == Rat(SumValues(gaps, lo, hi), hi - lo + 1)
        scores == [n \in lo..hi |-> RatDiv([num |-> gaps[n], den |-> 1], avg_gap)]
    IN  IF avg_gap.num = 0
        THEN [raises |-> TRUE, scores |-> <<>>]
        ELSE [raises |-> FALSE, scores |-> Normalized(scores, MaxScoreOrOne(scores))]

\* ------------------------------------------------------------------ PositionBiasAnalyzer
\* get_zone_distribution: counter[zone], total over the picks of the history that have a zone
ZoneCount(history, zone) ==
    LET picks == { <<i, k>> \in (DOMAIN history) \X (1..6) :
                      k \in DOMAIN history[i] /\ get_zone(history[i][k]) = zone }
    IN  Cardinality(picks)

\* PositionBiasAnalyzer.get_scores
PositionScores(history, lo, hi) ==
    LET zones == { Bands[i].zone : i \in DOMAIN Bands }
        total == ZoneCount(history, "low") + ZoneCount(history, "mid")
                    + ZoneCount(history, "high")
        even == [num |-> 1, den |-> Len(Bands)]
        dist == [z \in zones |-> IF total = 0 THEN even ELSE Rat(ZoneCount(history, z), total)]
        zone_score == [z \in zones |->
                          RatAdd(IF RatLeq(dist[z], even) THEN RatSub(even, dist[z])
                                 ELSE [num |-> 0, den |-> 1],
                                 [num |-> 1, den |-> 100])]
        scores == [n \in lo..hi |->
                      IF get_zone(n) \in zones THEN zone_score[get_zone(n)]
                      ELSE [num |-> 1, den |-> 100]]
    IN  [raises |-> FALSE, scores |-> Normalized(scores, MaxScoreOrOne(scores))]

\* ------------------------------------------------------------------ XGBoostPredictor
\* list[start:] for a 0-based start
SliceFrom(list, start) == SubSeq(list, start + 1, Len(list))

\* XGBoostPredictor._build_training_data: for i, draw in enumerate(history[1:], start=1):
\* context = history[i:]; every number of the range is a sample labelled 1 if drawn
_build_training_data(history, lo, hi) ==
    LET labelled == SliceFrom(history, 1)
    IN  [i \in DOMAIN labelled |->
            LET draw == labelled[i]
            IN  [i |-> i,
                 draw |-> draw,
                 context |-> SliceFrom(history, i),
                 labels |-> [num \in lo..hi |-> IF Occurrences(draw, num) > 0 THEN 1 ELSE 0]]]

\* ------------------------------------------------------------------ MarkovChain
\* params.get("smoothing", 0.01)
Smoothing == [num |-> 1, den |-> 100]

\* params.get("order", 2): 2 when the configuration names none, or the configured order
MarkovOrders == {1, 2}

\* list(reversed(history)): oldest first
Reversed(list) == [i \in 1..Len(list) |-> list[Len(list) + 1 - i]]

\* MarkovChain.train.  The loop index i is 0-based: chronological[i - 1] is the draw
\* before chronological[i].
MarkovChain_train(history, order, lo, hi) ==
    LET chronological == Reversed(history)
        steps == order..(Len(chronological) - 1)
        prev_key(i) == SetOf(chronological[i])
        current(i) == chronological[i + 1]
        keys == { prev_key(i) : i \in steps }
        hits(key, num) ==
            UNION { { <<i, k>> : k \in { q \in DOMAIN current(i) : current(i)[q] = num } } :
                      i \in { j \in steps : prev_key(j) = key } }
        lengths(key) ==
            UNION { { <<i, k>> : k \in DOMAIN current(i) } :
                      i \in { j \in steps : prev_key(j) = key } }
    IN  IF Len(history) <= order
        THEN [trained |-> FALSE, transition_counts |-> <<>>, total_transitions |-> <<>>]
        ELSE [trained |-> TRUE,
              transition_counts |->
                  [key \in keys |-> [num \in lo..hi |-> Cardinality(hits(key, num))]],
              total_transitions |-> [key \in keys |-> Cardinality(lengths(key))]]

RECURSIVE SumScores(_, _, _)
\* sum(scores.values())
SumScores(scores, lo, hi) ==
    IF lo > hi THEN [num |-> 0, den |-> 1]
    ELSE IF lo = hi THEN scores[lo]
    ELSE LET mid == (lo + hi) \div 2
         IN  RatAdd(SumScores(scores, lo, mid), SumScores(scores, mid + 1, hi))

\* MarkovChain.get_scores
MarkovChain_get_scores(model, history, lo, hi) ==
    LET last_draw == SetOf(history[1])
        n_numbers == hi - lo + 1
        state_total == IF last_draw \in DOMAIN model.total_transitions
                       THEN model.total_transitions[last_draw] ELSE 0
        count(num) == IF last_draw \in DOMAIN model.transition_counts
                      THEN model.transition_counts[last_draw][num] ELSE 0
        scores == [num \in lo..hi |->
                      RatDiv(RatAdd([num |-> count(num), den |-> 1], Smoothing),
                             RatAdd([num |-> state_total, den |-> 1],
                                    RatMul(Smoothing, [num |-> n_numbers, den |-> 1])))]
        total == SumScores(scores, lo, hi)
    IN  IF ~model.trained
        THEN [raises |-> TRUE, scores |-> <<>>]
        ELSE [raises |-> FALSE, scores |-> [n \in lo..hi |-> RatDiv(scores[n], total)]]

\* ------------------------------------------------------------------ draw validation
\* required = {"draw_id", "lottery_type", "draw_date", "numbers"}
Required == {"draw_id", "lottery_type", "draw_date", "numbers"}

\* number_range of Power655Crawler, Mega645Crawler, Lotto535Crawler
number_range(lt) ==
    IF lt = "power_655" THEN <<1, 55>>
    ELSE IF lt = "mega_645" THEN <<1, 45>>
    ELSE <<1, 35>>

\* Lotto535Crawler.special_range
special_range == <<1, 12>>

\* BaseCrawler.validate_draw.  A record is its set of keys, its numbers and its jackpot2
\* (0 = None or absent).
validate_draw(lt, record) ==
    LET nums == record.numbers
        lo == number_range(lt)[1]
        hi == number_range(lt)[2]
    IN  IF ~(Required \subseteq record.keys) THEN FALSE
        ELSE IF Len(nums) # 6 THEN FALSE
        ELSE IF Cardinality(SetOf(nums)) # 6 THEN FALSE
        ELSE IF ~(\A i \in DOMAIN nums : lo <= nums[i] /\ nums[i] <= hi) THEN FALSE
        ELSE TRUE

\* Lotto535Crawler._validate_535
_validate_535(record) ==
    LET nums == record.numbers
        special == record.jackpot2
        lo == number_range("lotto_535")[1]
        hi == number_range("lotto_535")[2]
        sp_lo == special_range[1]
        sp_hi == special_range[2]
    IN  IF Len(nums) # 5 THEN FALSE
        ELSE IF Cardinality(SetOf(nums)) # 5 THEN FALSE
        ELSE IF ~(\A i \in DOMAIN nums : lo <= nums[i] /\ nums[i] <= hi) THEN FALSE
        ELSE IF special # 0 /\ ~(sp_lo <= special /\ special <= sp_hi) THEN FALSE
        ELSE IF special # 0 /\ special \in SetOf(nums) THEN FALSE
        ELSE IF ~(Required \subseteq record.keys) THEN FALSE
        ELSE TRUE

\* _parse_rows: `if record and self.validate_draw(record)` in the 6/55 and 6/45 crawlers,
\* `if record and self._validate_535(record)` in the 5/35 crawler
AcceptedByCrawler(lt, record) ==
    IF lt = "lotto_535" THEN _validate_535(record) ELSE validate_draw(lt, record)

\* ------------------------------------------------------------------ EnsemblePredictor.predict
\* Python computes the scores in binary floating point; predict is modelled in fixed
\* point, a score being a whole number of 1 / ScoreScale units, rounded down.
ScoreScale == 100000

\* A dict holds values computed once, when it is built: the comparison has the map
\* evaluated in full before it is used.
Dict(f) == IF f = f THEN f ELSE f
Fixed(score) == (score.num * ScoreScale) \div score.den
FixedScores(scores) == Dict([n \in DOMAIN scores |-> Fixed(scores[n])])

\* What a loaded sequence model and a loaded feature model return: the artefacts are
\* not part of the sources, so each is a fixed score map with values in [0, 1].
LoadedLstmScores(lo, hi) == [n \in lo..hi |-> Rat(n % 3, 2)]
LoadedXgboostScores(lo, hi) == [n \in lo..hi |-> Rat((n + 1) % 3, 2)]

\* MarkovChain.load: the tables of a chain trained on the history, _trained = True
LoadedMarkov(history, lo, hi) ==
    [MarkovChain_train(history, 1, lo, hi) EXCEPT !.trained = TRUE]

\* Faulty variant of the next definition: every number gets 1.
UniformScoresUnscaled(lo, hi) == [n \in lo..hi |-> [num |-> 1, den |-> 1]]

\* {n: 1.0 / (self.hi - self.lo + 1) for n in range(self.lo, self.hi + 1)}
UniformScores(lo, hi) == [n \in lo..hi |-> Rat(1, hi - lo + 1)]

\* sorted(final_scores, key=lambda n: final_scores[n], reverse=True): the numbers by
\* descending score, equal scores in ascending number order
SortedByScore(final_scores) ==
    LET numbers == DOMAIN final_scores
        before(m, n) ==
            \/ final_scores[m] > final_scores[n]
            \/ final_scores[m] = final_scores[n] /\ m < n
        rank == Dict([n \in numbers |-> 1 + Cardinality({ m \in numbers : before(m, n) })])
    IN  [i \in 1..Cardinality(numbers) |-> CHOOSE n \in numbers : rank[n] = i]

\* EnsemblePredictor.predict of the 6/55 ensemble with the configured weights; ready
\* tells which of lstm, xgboost and markov are loaded (get_scores raises RuntimeError
\* otherwise)
predict(history, n_picks, ready) ==
    LET lo == number_range("power_655")[1]
        hi == number_range("power_655")[2]
        w == EnsemblePredictor_init(ConfigWeights)
        gap == GapScores(history, lo, hi)
        freq_scores == FixedScores(FrequencyScores(history, lo, hi).scores)
        gap_scores == FixedScores(gap.scores)
        pos_scores == FixedScores(PositionScores(history, lo, hi).scores)
        stat_scores ==
            Dict([n \in lo..hi |-> (freq_scores[n] + gap_scores[n] + pos_scores[n]) \div 3])
        lstm_scores ==
            IF ready.lstm THEN FixedScores(LoadedLstmScores(lo, hi)) ELSE stat_scores
        xgb_scores ==
            IF ready.xgboost THEN FixedScores(LoadedXgboostScores(lo, hi)) ELSE stat_scores
        markov_scores ==
            IF ready.markov
            THEN FixedScores(MarkovChain_get_scores(LoadedMarkov(history, lo, hi),
                                                    history, lo, hi).scores)
            ELSE FixedScores(UniformScores(lo, hi))
        xgb_blended == Dict([n \in lo..hi |-> (xgb_scores[n] + markov_scores[n]) \div 2])
        final_scores ==
            Dict([n \in lo..hi |->
                  (w.w_lstm.num * lstm_scores[n]) \div w.w_lstm.den
                + (w.w_xgb.num * xgb_blended[n]) \div w.w_xgb.den
                + (w.w_stat.num * stat_scores[n]) \div w.w_stat.den])
        top_candidates == SortedByScore(final_scores)
        balanced == pick_balanced(top_candidates, n_picks)
        failed == [raises |-> TRUE, diverges |-> FALSE, stat_scores |-> <<>>,
                   lstm_scores |-> <<>>, xgb_scores |-> <<>>, markov_scores |-> <<>>,
                   numbers |-> <<>>]
    IN  IF Len(history) = 0 THEN failed
        ELSE IF gap.raises THEN failed
        ELSE [raises |-> FALSE, diverges |-> balanced.diverges, stat_scores |-> stat_scores,
              lstm_scores |-> lstm_scores, xgb_scores |-> xgb_scores,
              markov_scores |-> markov_scores, numbers |-> balanced.picked]

\* ------------------------------------------------------------------ pure functions on drawn inputs
Pending == [pending |-> TRUE]

\* Step 4 of check_result on a Power 6/55 prediction and draw, in several orders.
MatchInputs ==
    [op : {"match"},
     predicted_nums : { <<5, 14, 22, 33, 41, 52>>, <<52, 41, 33, 22, 14, 5>>,
                        <<22, 5, 52, 14, 41, 33>>, <<11, 12, 13, 17, 18, 19>> },
     actual_numbers : { <<5, 9, 22, 30, 41, 49>>, <<49, 41, 30, 22, 9, 5>>,
                        <<41, 5, 9, 49, 22, 30>>, <<5, 14, 22, 33, 41, 52>> },
     jackpot2 : {0, 14},
     out : {Pending}]

\* The prize ladders: variant, matched_count, predicted and actual special (0 = absent).
PrizeInputs ==
    [op : {"prize"},
     lottery_type : {"power_655", "mega_645", "lotto_535"},
     matched_count : 0..6,
     predicted_nums : { <<5, 14, 22, 33, 41, 52>> },
     special_number : {0, 7, 9},
     jackpot2 : {0, 7, 9, 14},
     out : {Pending}]

WeightValues == {0, 50, 300, 600, 900}
WeightInputs ==
    [op : {"update_weights"}, lstm_w : WeightValues, xgb_w : WeightValues,
     stat_w : WeightValues, out : {Pending}]

PickPool == {1, 2, 19, 37}
PickCounts == {3, 4}
PickInputs ==
    [op : {"pick_balanced"},
     candidates : UNION { [1..k -> PickPool] : k \in 0..MaxCandidates },
     n : PickCounts,
     out : {Pending}]

\* Draw records handed to the validators: complete and incomplete key sets, main numbers
\* of the right and the wrong count, repeated and out-of-range ones, and a jackpot2
\* that is absent (0), repeats a main number, or lies outside the 5/35 special range.
ValidateNumbers ==
    { <<5, 14, 22, 33, 41, 52>>, <<5, 14, 22, 33>>, <<5, 5, 22, 33, 41, 52>>,
      <<0, 14, 22, 33, 41, 56>>, <<1, 14, 22, 33, 41, 46>>, <<3, 15, 22, 31, 40, 45>>,
      <<3, 8, 15, 21, 30>>, <<3, 8, 15, 21, 36>>, <<3, 3, 15, 21, 30>> }
ValidateInputs ==
    [op : {"validate"},
     lottery_type : {"power_655", "lotto_535"},
     keys : {Required, Required \ {"draw_date"}},
     numbers : ValidateNumbers,
     jackpot2 : {0, 5, 8, 13, 44},
     out : {Pending}]
    \cup
    [op : {"validate"},
     lottery_type : {"mega_645"},
     keys : {Required, Required \ {"draw_date"}},
     numbers : ValidateNumbers,
     jackpot2 : {0},
     out : {Pending}]

\* config["ensemble"]["weights"] triples with a positive total: on 1, near 1, off 1.
ConfigWeightValues == {250, 350, 400, 405, 600}
ConfigWeightInputs ==
    [op : {"init"}, lstm : ConfigWeightValues, xgboost : ConfigWeightValues,
     statistical : ConfigWeightValues, out : {Pending}]

\* Histories, most recent draw first, of up to MaxHistory draws of six numbers.
HistoryDraws == { <<5, 14, 22, 33, 41, 52>>, <<3, 11, 19, 28, 37, 50>>, <<1, 2, 3, 4, 5, 6>> }
Histories == UNION { [1..k -> HistoryDraws] : k \in 0..MaxHistory }

\* The analyzers on the 6/55 range and on a short range.
NumberRanges == { <<1, 55>>, <<1, 6>> }
ScoreInputs == [op : {"scores"}, range : NumberRanges, history : Histories, out : {Pending}]

\* Training histories of the feature scorer and of the transition model (range 1..55),
\* and the draw the trained transition model is then asked about.
TrainingInputs == [op : {"training_data"}, history : Histories, out : {Pending}]
MarkovInputs ==
    [op : {"markov"}, history : Histories, order : MarkovOrders, last_draw : HistoryDraws,
     out : {Pending}]

\* predict of the 6/55 ensemble: every history, every combination of loaded models.
ReadyFlags == [lstm : BOOLEAN, xgboost : BOOLEAN, markov : BOOLEAN]
PredictInputs == [op : {"predict"}, history : Histories, ready : ReadyFlags, out : {Pending}]

InitPure ==
    /\ lottery_results = {}
    /\ cycles = <<>>
    /\ predictions = EmptyBag
    /\ match_results = EmptyBag
    /\ pc = [p \in Procs |-> "idle"]
    /\ call = [p \in Procs |-> NoCall]
    /\ loc = [p \in Procs |-> NoLoc]
    /\ ret = [p \in Procs |-> NoRet]
    /\ budget = 0
    /\ model_configs = ConfigWeights
    /\ training_logs = <<>>
    /\ eval_ret = NoEval
    /\ probe \in MatchInputs \cup PrizeInputs \cup WeightInputs \cup PickInputs
                 \cup ValidateInputs \cup ConfigWeightInputs
                 \cup ScoreInputs \cup TrainingInputs \cup MarkovInputs
                 \cup PredictInputs

ApplyMatch ==
    /\ probe.op = "match" /\ probe.out = Pending
    /\ probe' = [probe EXCEPT !.out =
           MatchRecord("power_655", 1, NoCycle,
                       [NoPrediction EXCEPT !.numbers = probe.predicted_nums],
                       [NoResult EXCEPT !.numbers = probe.actual_numbers,
                                        !.jackpot2 = probe.jackpot2])]

ApplyPrize ==
    /\ probe.op = "prize" /\ probe.out = Pending
    /\ LET special_matched ==
               SpecialMatched(probe.lottery_type,
                              [NoPrediction EXCEPT !.numbers = probe.predicted_nums,
                                                   !.special_number = probe.special_number],
                              [NoResult EXCEPT !.jackpot2 = probe.jackpot2])
       IN  probe' = [probe EXCEPT !.out =
               [special_matched |-> special_matched,
                prize_level |-> PrizeLevel(probe.lottery_type, probe.matched_count,
                                           special_matched)]]

ApplyUpdateWeights ==
    /\ probe.op = "update_weights" /\ probe.out = Pending
    /\ probe' = [probe EXCEPT !.out = update_weights(probe.lstm_w, probe.xgb_w, probe.stat_w)]

ApplyPickBalanced ==
    /\ probe.op = "pick_balanced" /\ probe.out = Pending
    /\ probe' = [probe EXCEPT !.out = pick_balanced(probe.candidates, probe.n)]

ApplyValidate ==
    /\ probe.op = "validate" /\ probe.out = Pending
    /\ probe' = [probe EXCEPT !.out =
           [accepted |-> AcceptedByCrawler(probe.lottery_type,
                             [keys |-> probe.keys, numbers |-> probe.numbers,
                              jackpot2 |-> probe.jackpot2])]]

ApplyInit ==
    /\ probe.op = "init" /\ probe.out = Pending
    /\ probe' = [probe EXCEPT !.out =
           EnsemblePredictor_init([lstm |-> probe.lstm, xgboost |-> probe.xgboost,
                                   statistical |-> probe.statistical])]

ApplyScores ==
    /\ probe.op = "scores" /\ probe.out = Pending
    /\ probe' = [probe EXCEPT !.out =
           [frequency |-> FrequencyScores(probe.history, probe.range[1], probe.range[2]),
            gap |-> GapScores(probe.history, probe.range[1], probe.range[2]),
            position |-> PositionScores(probe.history, probe.range[1], probe.range[2])]]

ApplyBuildTrainingData ==
    /\ probe.op = "training_data" /\ probe.out = Pending
    /\ probe' = [probe EXCEPT !.out = [samples |-> _build_training_data(probe.history, 1, 55)]]

ApplyMarkov ==
    /\ probe.op = "markov" /\ probe.out = Pending
    /\ LET model == MarkovChain_train(probe.history, probe.order, 1, 55)
       IN  probe' = [probe EXCEPT !.out =
               [model |-> model,
                scored |-> MarkovChain_get_scores(model, <<probe.last_draw>>, 1, 55)]]

ApplyPredict ==
    /\ probe.op = "predict" /\ probe.out = Pending
    /\ probe' = [probe EXCEPT !.out = predict(probe.history, 6, probe.ready)]

NextPure ==
    /\ \/ ApplyMatch
       \/ ApplyPrize
       \/ ApplyUpdateWeights
       \/ ApplyPickBalanced
       \/ ApplyValidate
       \/ ApplyInit
       \/ ApplyScores
       \/ ApplyBuildTrainingData
       \/ ApplyMarkov
       \/ ApplyPredict
    /\ UNCHANGED <<store, pc, call, loc, ret, budget, model_configs, training_logs, eval_ret>>

SpecPure == InitPure /\ [][NextPure]_vars

\* ------------------------------------------------------------------ properties
ActiveIds(lt) ==
    { i \in DOMAIN cycles : cycles[i].lottery_type = lt /\ cycles[i].status = "active" }

MatchRowCount(cycle_id) ==
    BagCardinality([r \in { x \in DOMAIN match_results : x.cycle_id = cycle_id }
                        |-> match_results[r]])

PredictionCount(cycle_id) ==
    BagCardinality([r \in { x \in DOMAIN predictions : x.cycle_id = cycle_id } |-> predictions[r]])

\* C1: for an active cycle with max_draws = m (5, or 3 when shortened), every advance
\* raises draws_tracked by exactly 1 and never by more, max_draws stays as created, the
\* status stays active while the count is below m and becomes completed exactly when
\* the count reaches m, and that is what the call reports.
C1_BetweenCalls ==
    AllQuiet =>
        /\ \A id \in DOMAIN cycles :
            /\ cycles[id].max_draws \in {DefaultMaxDraws, ShortMaxDraws}
            /\ cycles[id].status = "active" =>
                  cycles[id].draws_tracked < cycles[id].max_draws
            /\ cycles[id].status = "completed" =>
                  cycles[id].draws_tracked = cycles[id].max_draws
        /\ \A p \in Procs :
            (ret[p].op = "check" /\ ret[p].kind = "success") =>
                /\ ret[p].draws_tracked = ret[p].draw_number
                /\ ret[p].draws_tracked = cycles[ret[p].cycle_id].draws_tracked
                /\ ret[p].cycle_complete = (ret[p].draws_tracked = ret[p].max_draws)
                /\ ret[p].cycle_complete =
                      (cycles[ret[p].cycle_id].status = "completed")

C1_AdvanceStep ==
    \A id \in DOMAIN cycles :
        LET a == cycles[id]
            b == cycles'[id]
        IN  /\ b.max_draws = a.max_draws
            /\ b.draws_tracked \in {a.draws_tracked, a.draws_tracked + 1}
            /\ (\E p \in Procs : /\ pc[p] = "adv_write"
                                 /\ pc'[p] = "adv_active"
                                 /\ loc[p].cycle.id = id)
                  => b.draws_tracked = a.draws_tracked + 1
            /\ b.status # a.status =>
                  /\ a.status = "active"
                  /\ b.status = "completed"
                  /\ b.draws_tracked = b.max_draws

C1_AdvanceByOneCompletesAtMax == []C1_BetweenCalls /\ [][C1_AdvanceStep]_vars

\* A shortened cycle was advanced three times and completed on the third call.
C1_Witness ==
    \E p \in Procs :
        /\ pc[p] = "done"
        /\ ret[p].op = "check"
        /\ ret[p].kind = "success"
        /\ ret[p].cycle_complete
        /\ ret[p].max_draws = ShortMaxDraws
        /\ ret[p].draws_tracked = ShortMaxDraws

\* C2: in every reachable state a variant has at most one active cycle, also when two
\* generate_prediction invocations interleave their lookup and their create.
C2_AtMostOneActiveCycle ==
    \A lt \in LotteryTypes : Cardinality(ActiveIds(lt)) <= 1

\* Two invocations both found no active cycle; one created it, the other was refused.
C2_Witness ==
    \E p, q \in Procs :
        /\ p # q
        /\ ret[q].op = "generate"
        /\ ret[q].kind = "raised"
        /\ ret[p].op = "generate"
        /\ ret[p].kind = "success"
        /\ Len(cycles) = 1

\* C3: the increment of draws_tracked is atomic: two check_result invocations that both
\* found the cycle at the same count leave it exactly 2 higher once both have returned.
C3_NoLostIncrement ==
    \A p, q \in Procs :
        ( /\ p # q
          /\ pc[p] = "done" /\ pc[q] = "done"
          /\ ret[p].op = "check" /\ ret[p].kind = "success"
          /\ ret[q].op = "check" /\ ret[q].kind = "success"
          /\ ret[p].cycle_id = ret[q].cycle_id
          /\ ret[p].draw_number = ret[q].draw_number )
        => cycles[ret[p].cycle_id].draws_tracked = (ret[p].draw_number - 1) + 2

\* C4: no two match records share (cycle, draw identifier, session), and a check_result
\* for a draw the cycle already has a record of leaves the number of records unchanged
\* (a first check of a draw adds exactly one; no other step touches the table).
C4_OneRowPerKey ==
    \A r1 \in DOMAIN match_results :
        /\ match_results[r1] = 1
        /\ \A r2 \in DOMAIN match_results :
              ( /\ r1.cycle_id = r2.cycle_id
                /\ r1.draw_id = r2.draw_id
                /\ r1.draw_session = r2.draw_session ) => r1 = r2

C4_InsertStep ==
    IF \E p \in Procs : pc[p] = "chk_insert" /\ pc'[p] # "chk_insert"
    THEN \A p \in Procs :
            (pc[p] = "chk_insert" /\ pc'[p] # "chk_insert") =>
                LET recorded ==
                        \E r \in DOMAIN match_results :
                            /\ r.cycle_id = loc[p].cycle.id
                            /\ r.draw_id = loc[p].result.draw_id
                            /\ r.draw_session = loc[p].result.draw_session
                IN  BagCardinality(match_results') =
                        BagCardinality(match_results) + (IF recorded THEN 0 ELSE 1)
    ELSE match_results' = match_results

C4_RepeatCheckAddsNoRecord == []C4_OneRowPerKey /\ [][C4_InsertStep]_vars

\* A draw was checked a second time in its cycle: the cycle's only record is the repeat's.
C4_Witness ==
    /\ AllQuiet
    /\ \E r \in DOMAIN match_results :
          r.draw_number = 2 /\ MatchRowCount(r.cycle_id) = 1

\* C5: between calls, draws_tracked of every cycle equals its number of match records.
C5_DrawsTrackedEqualsMatchRows ==
    AllQuiet => \A id \in DOMAIN cycles : cycles[id].draws_tracked = MatchRowCount(id)

\* C6: between calls, every cycle has exactly one prediction attached.
C6_OnePredictionPerCycle ==
    AllQuiet => \A id \in DOMAIN cycles : PredictionCount(id) = 1

\* C7: when get_or_create_cycle finds an active cycle of the variant it returns that
\* cycle as stored and changes nothing in the store; the rest of the invocation adds no
\* cycle either.
C7_Step ==
    \A p \in Procs :
        /\ ( /\ pc[p] = "goc_active"
             /\ pc'[p] # "goc_active"
             /\ ActiveIds(call[p].lottery_type) # {} )
           => /\ pc'[p] = "gen_insert"
              /\ \E id \in ActiveIds(call[p].lottery_type) :
                    loc'[p].cycle = cycles[id] /\ loc'[p].cycle.id = id
              /\ UNCHANGED store
        /\ (pc[p] = "gen_insert" /\ pc'[p] # "gen_insert") => cycles' = cycles

C7_ActiveCycleReturnedUnchanged == [][C7_Step]_vars

\* get_or_create_cycle returned a cycle that had already been advanced.
C7_Witness ==
    \E p \in Procs :
        /\ pc[p] = "gen_insert"
        /\ loc[p].cycle.draws_tracked >= 1
        /\ cycles[loc[p].cycle.id] = loc[p].cycle

\* C8: with no active cycle, get_or_create_cycle creates exactly one cycle, numbered the
\* variant's previous maximum + 1 (1 for its first), active, draws_tracked 0; so the
\* cycle numbers of a variant are 1, 2, ... in creation order.
C8_Numbering ==
    \A i \in DOMAIN cycles :
        cycles[i].cycle_number =
            1 + Cardinality({ j \in 1..(i - 1) :
                                cycles[j].lottery_type = cycles[i].lottery_type })

C8_CreateStep ==
    IF \E p \in Procs : pc[p] = "goc_create" /\ pc'[p] # "goc_create"
    THEN \A p \in Procs :
            (pc[p] = "goc_create" /\ pc'[p] # "goc_create") =>
                LET lt == call[p].lottery_type
                    nums == { cycles[j].cycle_number :
                                j \in { k \in DOMAIN cycles : cycles[k].lottery_type = lt } }
                    new == cycles'[Len(cycles')]
                IN  /\ pc'[p] = "gen_insert"
                    /\ Len(cycles') = Len(cycles) + 1
                    /\ SubSeq(cycles', 1, Len(cycles)) = cycles
                    /\ new.lottery_type = lt
                    /\ new.status = "active"
                    /\ new.draws_tracked = 0
                    /\ new.cycle_number =
                          (IF nums = {} THEN 1
                           ELSE 1 + CHOOSE n \in nums : \A m \in nums : m <= n)
    ELSE Len(cycles') = Len(cycles)

C8_NextCycleNumber == []C8_Numbering /\ [][C8_CreateStep]_vars

\* A variant got its second cycle.
C8_Witness ==
    \E i, j \in DOMAIN cycles :
        /\ i < j
        /\ cycles[i].lottery_type = cycles[j].lottery_type
        /\ cycles[i].cycle_number = 1
        /\ cycles[j].cycle_number = 2

\* C9: a cycle has max_draws = 3 exactly when its variant has a cycle numbered one less
\* none of whose match records has matched_count >= 3; otherwise max_draws = 5.
C9_MaxDrawsFollowsPreviousCycle ==
    \A id \in DOMAIN cycles :
        LET c == cycles[id]
            prevs == { j \in DOMAIN cycles :
                         /\ cycles[j].lottery_type = c.lottery_type
                         /\ cycles[j].cycle_number = c.cycle_number - 1 }
            poor == /\ prevs # {}
                    /\ \A j \in prevs : \A r \in DOMAIN match_results :
                          r.cycle_id = j => r.matched_count < 3
        IN  c.max_draws = (IF poor THEN 3 ELSE 5)

\* A second cycle was shortened after a first cycle without a 3-match draw.
C9_Witness ==
    \E id \in DOMAIN cycles :
        /\ cycles[id].cycle_number = 2
        /\ cycles[id].max_draws = 3
        /\ MatchRowCount(id) >= 1

DrawAbsent(lt, draw_id, draw_session) ==
    ~ \E r \in lottery_results :
        /\ r.lottery_type = lt
        /\ r.draw_id = draw_id
        /\ (draw_session = NoSession \/ r.draw_session = draw_session)

\* C10: check_result with no active cycle of the variant, or an active cycle without a
\* prediction, or a draw that is not in lottery_results, returns a structured failure
\* (it does not raise, it does not go on), and no failing check_result changes the store.
C10_Step ==
    \A p \in Procs :
        /\ (Quiet(p) /\ pc'[p] = "chk_prediction") =>
              ActiveIds(call'[p].lottery_type) # {}
        /\ ( /\ Quiet(p) /\ pc'[p] = "done"
             /\ ret'[p] # ret[p] /\ ret'[p].op = "check"
             /\ ActiveIds(ret'[p].lottery_type) = {} )
           => /\ ret'[p].kind = "failure"
              /\ ret'[p].error = "NoActiveCycle"
        /\ ( /\ pc[p] = "chk_prediction" /\ pc'[p] # "chk_prediction"
             /\ PredictionCount(loc[p].cycle.id) = 0 )
           => /\ pc'[p] = "done"
              /\ ret'[p].kind = "failure"
              /\ ret'[p].error = "NoPrediction"
        /\ ( /\ pc[p] = "chk_result" /\ pc'[p] # "chk_result"
             /\ DrawAbsent(call[p].lottery_type, call[p].draw_id, call[p].draw_session) )
           => /\ pc'[p] = "done"
              /\ ret'[p].kind = "failure"
              /\ ret'[p].error = "DrawNotFound"
        /\ (ret'[p] # ret[p] /\ ret'[p].kind = "failure") => UNCHANGED store

C10_FailureIsStructuredAndFrameless == [][C10_Step]_vars

\* One invocation failed on a cycle without prediction, the other on a missing draw.
C10_Witness ==
    \E p, q \in Procs :
        /\ p # q
        /\ ret[p].kind = "failure" /\ ret[p].error = "NoPrediction"
        /\ ret[q].kind = "failure" /\ ret[q].error = "DrawNotFound"

\* C11: check_result reports matched = the set intersection of the predicted and the
\* actual main numbers (ascending) and matched_count = its size, whatever the order of
\* the two lists; [5,14,22,33,41,52] against [5,9,22,30,41,49] gives {5,22,41}, 3, PRIZE_3.
C11_MatchedIsIntersection ==
    (probe.op = "match" /\ probe.out # Pending) =>
        LET common == SetOf(probe.predicted_nums) \cap SetOf(probe.actual_numbers)
            matched == probe.out.matched_numbers
        IN  /\ SetOf(matched) = common
            /\ Len(matched) = Cardinality(common)
            /\ \A i, j \in DOMAIN matched : i < j => matched[i] < matched[j]
            /\ probe.out.matched_count = Cardinality(common)
            /\ ( /\ SetOf(probe.predicted_nums) = {5, 14, 22, 33, 41, 52}
                 /\ SetOf(probe.actual_numbers) = {5, 9, 22, 30, 41, 49} )
               => /\ matched = <<5, 22, 41>>
                  /\ probe.out.matched_count = 3
                  /\ probe.out.prize_level = "PRIZE_3"

\* The scenario with both lists out of order.
C11_Witness ==
    /\ probe.op = "match" /\ probe.out # Pending
    /\ probe.predicted_nums = <<22, 5, 52, 14, 41, 33>>
    /\ probe.actual_numbers = <<49, 41, 30, 22, 9, 5>>
    /\ probe.out.matched_numbers = <<5, 22, 41>>
    /\ probe.out.prize_level = "PRIZE_3"

\* C12: Mega 6/45 tiers follow matched_count alone (6 JACKPOT, 5 PRIZE_1, 4 PRIZE_2,
\* 3 PRIZE_3, else NO_PRIZE); Power 6/55 has the same ladder with 6 = JACKPOT_1 whatever
\* the special and 5 = JACKPOT_2 when the special matched, PRIZE_1 otherwise.
C12_SixNumberLadders ==
    (probe.op = "prize" /\ probe.out # Pending) =>
        LET m == probe.matched_count
            tier == probe.out.prize_level
            special == probe.jackpot2 # 0 /\ probe.jackpot2 \in SetOf(probe.predicted_nums)
        IN  /\ probe.lottery_type = "mega_645" =>
                  tier = CASE m = 6 -> "JACKPOT"
                           [] m = 5 -> "PRIZE_1"
                           [] m = 4 -> "PRIZE_2"
                           [] m = 3 -> "PRIZE_3"
                           [] OTHER -> "NO_PRIZE"
            /\ probe.lottery_type = "power_655" =>
                  tier = CASE m = 6 -> "JACKPOT_1"
                           [] m = 5 /\ special -> "JACKPOT_2"
                           [] m = 5 /\ ~special -> "PRIZE_1"
                           [] m = 4 -> "PRIZE_2"
                           [] m = 3 -> "PRIZE_3"
                           [] OTHER -> "NO_PRIZE"

\* Power 6/55, five matches and the special among the predicted numbers.
C12_Witness ==
    /\ probe.op = "prize" /\ probe.out # Pending
    /\ probe.lottery_type = "power_655"
    /\ probe.matched_count = 5
    /\ probe.jackpot2 = 14
    /\ probe.out.prize_level = "JACKPOT_2"

\* C13: Lotto 5/35: 5 matches + special matched = JACKPOT, 5 matches + special mismatch
\* = PRIZE_1, 2 matches + special matched = the consolation tier; the special counts as
\* matched only when predicted and actual special are both present and equal.
C13_Lotto535Ladder ==
    (probe.op = "prize" /\ probe.out # Pending /\ probe.lottery_type = "lotto_535") =>
        LET m == probe.matched_count
            tier == probe.out.prize_level
            special == /\ probe.special_number # 0
                       /\ probe.jackpot2 # 0
                       /\ probe.special_number = probe.jackpot2
        IN  /\ probe.out.special_matched = special
            /\ (m = 5 /\ special) => tier = "JACKPOT"
            /\ (m = 5 /\ ~special) => tier = "PRIZE_1"
            /\ (m = 2 /\ special) => tier = "PRIZE_KK"
            /\ (m = 2 /\ ~special) => tier = "NO_PRIZE"

\* Five matches, predicted special 7, actual special 7.
C13_Witness ==
    /\ probe.op = "prize" /\ probe.out # Pending
    /\ probe.lottery_type = "lotto_535"
    /\ probe.matched_count = 5
    /\ probe.special_number = 7 /\ probe.jackpot2 = 7
    /\ probe.out.prize_level = "JACKPOT"

\* An evaluate_and_retrain call in a run of SpecRetrain: no invocation is running or
\* started, and the step is not one of an invocation.
EvaluateStep == AllQuiet /\ pc' = pc /\ budget' = budget

\* C14: evaluate_and_retrain reports hit_3plus = the number of the cycle's match records
\* with matched_count >= 3, max_match = the largest matched_count (0 without records),
\* and should_retrain exactly when hit_3plus is below the configured threshold.
C14_Step ==
    EvaluateStep =>
        LET rows == { r \in DOMAIN match_results : r.cycle_id = eval_ret'.cycle_id }
            hits == { r \in rows : r.matched_count >= 3 }
            hit_3plus == BagCardinality([r \in hits |-> match_results[r]])
        IN  /\ eval_ret'.hit_3plus = hit_3plus
            /\ rows = {} => eval_ret'.max_match = 0
            /\ rows # {} =>
                  /\ \E r \in rows : r.matched_count = eval_ret'.max_match
                  /\ \A r \in rows : r.matched_count <= eval_ret'.max_match
            /\ eval_ret'.should_retrain = (hit_3plus < eval_ret'.min_hits_3plus)

C14_MetricsAndDecision == [][C14_Step]_vars

\* hit_3plus = 1 against a threshold of 2: retrain.
C14_Witness ==
    /\ eval_ret.hit_3plus = 1
    /\ eval_ret.min_hits_3plus = 2
    /\ eval_ret.max_match = 3
    /\ eval_ret.should_retrain

\* C15 as stated: every triggered retrain lowers the stored LSTM weight by exactly 0.05.
C15_EveryRetrainLowersByStep ==
    \A i \in DOMAIN training_logs :
        training_logs[i].training_status = "triggered" =>
            training_logs[i].new_params.lstm = training_logs[i].old_params.lstm - 50

\* C15: a triggered retrain lowers the stored LSTM weight by exactly 0.05 (and raises the
\* XGBoost weight by 0.05, the statistical weight unchanged) when the weights before sum
\* to 1 and neither clamp engages (LSTM >= 0.15, XGBoost <= 0.55 before); the stored
\* weights are the logged new weights.
C15_LowersByStepUnclamped ==
    /\ \A i \in DOMAIN training_logs :
          LET old == training_logs[i].old_params
              new == training_logs[i].new_params
          IN  ( /\ training_logs[i].training_status = "triggered"
                /\ old.lstm + old.xgboost + old.statistical = 1000
                /\ old.lstm >= 150
                /\ old.xgboost <= 550 )
              => /\ new.lstm = old.lstm - 50
                 /\ new.xgboost = old.xgboost + 50
                 /\ new.statistical = old.statistical
    /\ \A i \in DOMAIN training_logs :
          ( /\ training_logs[i].training_status = "triggered"
            /\ \A j \in DOMAIN training_logs :
                  j > i => training_logs[j].training_status # "triggered" )
          => model_configs = training_logs[i].new_params

\* Five retrains from the defaults, 0.40 -> 0.35 -> ... -> 0.15, then a sixth.
C15_Witness ==
    /\ Len(training_logs) >= 6
    /\ training_logs[1].training_status = "triggered"
    /\ training_logs[1].old_params = ConfigWeights
    /\ training_logs[1].new_params.lstm = 350
    /\ training_logs[5].old_params.lstm = 200
    /\ training_logs[5].new_params.lstm = 150

\* C16: after any number of consecutive retrains from the defaults each stored weight is
\* within [0.10, 0.60] and the three sum to 1 within 0.001.
C16_StoredWeightsWithinBand ==
    LET total == model_configs.lstm + model_configs.xgboost + model_configs.statistical
    IN  /\ \A w \in {model_configs.lstm, model_configs.xgboost, model_configs.statistical} :
              100 <= w /\ w <= 600
        /\ 999 <= total /\ total <= 1001

\* C17: update_weights leaves each weight within [0.10, 0.60] and the three summing to 1,
\* for any input triple.
C17_UpdateWeightsWithinBand ==
    (probe.op = "update_weights" /\ probe.out # Pending) =>
        LET ws == {probe.out.w_lstm, probe.out.w_xgb, probe.out.w_stat}
        IN  /\ \A w \in ws : 10 * w.num >= w.den /\ 10 * w.num <= 6 * w.den
            /\ probe.out.w_lstm.num + probe.out.w_xgb.num + probe.out.w_stat.num
                  = probe.out.w_lstm.den

\* C18: every evaluate_and_retrain call appends exactly one audit-log entry carrying the
\* justification and touches no pipeline table; without a retrain the stored weights are
\* unchanged; no other step changes the weights or the log.
C18_Step ==
    IF EvaluateStep
    THEN LET entry == training_logs'[Len(training_logs')]
         IN  /\ Len(training_logs') = Len(training_logs) + 1
             /\ SubSeq(training_logs', 1, Len(training_logs)) = training_logs
             /\ entry.trigger_reason.hit_3plus = eval_ret'.hit_3plus
             /\ entry.training_status =
                   (IF eval_ret'.should_retrain THEN "triggered" ELSE "skipped")
             /\ UNCHANGED store
             /\ ~eval_ret'.should_retrain => model_configs' = model_configs
    ELSE UNCHANGED <<model_configs, training_logs>>

C18_OneAuditEntryPerCall == [][C18_Step]_vars

\* A retrain, then an evaluation that kept the weights of that retrain.
C18_Witness ==
    /\ Len(training_logs) = 2
    /\ training_logs[1].training_status = "triggered"
    /\ training_logs[2].training_status = "skipped"
    /\ model_configs = training_logs[1].new_params
    /\ ~eval_ret.should_retrain

\* C19: a generate_prediction that follows a retrain decided at the completion of a cycle
\* reports (and blends with) the weights the retrain stored.
C19_Step ==
    \A p \in Procs :
        ( /\ pc[p] = "gen_insert" /\ pc'[p] = "done"
          /\ eval_ret.should_retrain
          /\ eval_ret.cycle_id \in DOMAIN cycles
          /\ cycles[eval_ret.cycle_id].status = "completed" )
        => ret'[p].weights = model_configs

C19_GenerateUsesRewrittenWeights == [][C19_Step]_vars

\* C20: pick_balanced returns exactly n pairwise-distinct candidates in ascending order
\* for every candidate list with at least n distinct values that covers the zones.
C20_PickBalancedDistinct ==
    ( /\ probe.op = "pick_balanced" /\ probe.out # Pending
      /\ Cardinality(SetOf(probe.candidates)) >= probe.n
      /\ \A i \in DOMAIN Bands :
            \E k \in DOMAIN probe.candidates : get_zone(probe.candidates[k]) = Bands[i].zone )
    => LET picked == probe.out.picked
       IN  /\ ~probe.out.diverges
           /\ Len(picked) = probe.n
           /\ SetOf(picked) \subseteq SetOf(probe.candidates)
           /\ \A i, j \in DOMAIN picked : i < j => picked[i] < picked[j]

\* C26: draws_tracked never exceeds max_draws; between calls a cycle is completed exactly
\* when draws_tracked equals max_draws; a completed cycle keeps its row (it is never
\* active again and is never incremented) and gets no further match record.
C26_Bounded ==
    \A id \in DOMAIN cycles :
        /\ cycles[id].draws_tracked <= cycles[id].max_draws
        /\ cycles[id].status \in {"active", "completed"}

C26_BetweenCalls ==
    AllQuiet =>
        \A id \in DOMAIN cycles :
            (cycles[id].status = "completed")
                <=> (cycles[id].draws_tracked = cycles[id].max_draws)

C26_Step ==
    \A id \in DOMAIN cycles :
        cycles[id].status = "completed" =>
            /\ cycles'[id] = cycles[id]
            /\ [r \in { x \in DOMAIN match_results' : x.cycle_id = id } |-> match_results'[r]]
                  = [r \in { x \in DOMAIN match_results : x.cycle_id = id } |-> match_results[r]]

C26_CompletedCycleIsFinal == [](C26_Bounded /\ C26_BetweenCalls) /\ [][C26_Step]_vars

\* A cycle was completed at max_draws and a later check_result for the variant found
\* no active cycle.
C26_Witness ==
    \E id \in DOMAIN cycles, p \in Procs :
        /\ cycles[id].status = "completed"
        /\ cycles[id].draws_tracked = cycles[id].max_draws
        /\ MatchRowCount(id) >= 1
        /\ pc[p] = "done"
        /\ ret[p].op = "check"
        /\ ret[p].kind = "failure"
        /\ ret[p].error = "NoActiveCycle"
        /\ ret[p].lottery_type = cycles[id].lottery_type

\* The values of a list with their numbers of occurrences.
BagOfSeq(list) == [v \in SetOf(list) |-> Cardinality({ i \in DOMAIN list : list[i] = v })]

\* Index of the first occurrence of a value in a list.
FirstIndex(list, v) == CHOOSE i \in DOMAIN list : list[i] = v /\ \A j \in 1..(i - 1) : list[j] # v

\* C27: pick_balanced takes from each zone, in zone order, the zone's first candidates up
\* to floor(n / zones), one more for each of the first (n mod zones) zones; the places
\* a short zone leaves are filled with the first candidates, in input order, that are
\* not yet selected; the result is in ascending order.
C27_ZoneSharesThenBackfill ==
    (probe.op = "pick_balanced" /\ probe.out # Pending /\ ~probe.out.diverges) =>
        LET candidates == probe.candidates
            n == probe.n
            zones == Len(Bands)
            share(i) == (n \div zones) + (IF i <= n % zones THEN 1 ELSE 0)
            of_zone(i) == SelectSeq(candidates,
                              LAMBDA num : Bands[i].lo <= num /\ num <= Bands[i].hi)
            best(i) == SubSeq(of_zone(i), 1, Min2(share(i), Len(of_zone(i))))
            by_zone == best(1) \o best(2) \o best(3)
            rest == SetOf(candidates) \ SetOf(by_zone)
            filled == { v \in rest :
                          Cardinality({ u \in rest :
                              FirstIndex(candidates, u) < FirstIndex(candidates, v) })
                            < n - Len(by_zone) }
            picked == probe.out.picked
        IN  /\ zones = 3
            /\ BagOfSeq(picked) = BagOfSeq(by_zone) (+) SetToBag(filled)
            /\ \A i, j \in DOMAIN picked : i < j => picked[i] <= picked[j]

\* A zone was short: the high zone had no candidate, the low zone gave its best one,
\* and the place left over went to the first candidate not yet selected.
C27_Witness ==
    /\ probe.op = "pick_balanced" /\ probe.out # Pending
    /\ probe.n = 3
    /\ probe.candidates = <<2, 19, 1, 2>>
    /\ probe.out.picked = <<1, 2, 19>>
    /\ ~probe.out.diverges

\* C28: pick_balanced always terminates; the back-fill step does not loop forever when
\* the candidates have fewer than n distinct values.
C28_PickBalancedTerminates ==
    (probe.op = "pick_balanced" /\ probe.out # Pending) => ~probe.out.diverges

\* C25: a draw record is accepted only if it has the required fields, its main numbers
\* are exactly the variant's pick count (5 for Lotto 5/35, 6 otherwise), pairwise
\* distinct and in the variant's range, and its special number, when present, lies in
\* the special range and repeats no main number; every other record is rejected.
C25_AcceptedIffValid ==
    (probe.op = "validate" /\ probe.out # Pending) =>
        LET lt == probe.lottery_type
            nums == probe.numbers
            pick_count == IF lt = "lotto_535" THEN 5 ELSE 6
            hi == IF lt = "power_655" THEN 55 ELSE IF lt = "mega_645" THEN 45 ELSE 35
            sp_hi == IF lt = "lotto_535" THEN 12 ELSE hi
        IN  probe.out.accepted <=>
                /\ {"draw_id", "lottery_type", "draw_date", "numbers"} \subseteq probe.keys
                /\ Len(nums) = pick_count
                /\ \A i, j \in DOMAIN nums : i # j => nums[i] # nums[j]
                /\ \A i \in DOMAIN nums : 1 <= nums[i] /\ nums[i] <= hi
                /\ probe.jackpot2 # 0 =>
                      /\ 1 <= probe.jackpot2 /\ probe.jackpot2 <= sp_hi
                      /\ \A i \in DOMAIN nums : nums[i] # probe.jackpot2

\* C30: after an EnsemblePredictor is constructed from a weight triple with a positive
\* total, its three weights sum to 1 within 1e-3: a triple whose total is not 1 has
\* each weight divided by the total.
C30_ConstructedWeightsSumToOne ==
    (probe.op = "init" /\ probe.out # Pending) =>
        LET sum == probe.out.w_lstm.num + probe.out.w_xgb.num + probe.out.w_stat.num
            den == probe.out.w_lstm.den
            off == IF sum >= den THEN sum - den ELSE den - sum
        IN  /\ probe.out.w_xgb.den = den /\ probe.out.w_stat.den = den
            /\ 1000 * off <= den

\* C23: for every number range and every history, the score map of each statistical
\* analyzer (frequency, gap, position) has exactly the keys lo..hi and values in [0, 1],
\* and for a non-empty history at least one value is 1.
C23_ScoreMapsNormalized ==
    (probe.op = "scores" /\ probe.out # Pending) =>
        \A analyzer \in {probe.out.frequency, probe.out.gap, probe.out.position} :
            /\ ~analyzer.raises
            /\ DOMAIN analyzer.scores = probe.range[1]..probe.range[2]
            /\ \A n \in DOMAIN analyzer.scores :
                  /\ 0 <= analyzer.scores[n].num
                  /\ analyzer.scores[n].num <= analyzer.scores[n].den
            /\ probe.history # <<>> =>
                  \E n \in DOMAIN analyzer.scores :
                      analyzer.scores[n].num = analyzer.scores[n].den

\* C24: in the training set of the feature scorer the context of every labelled draw
\* holds only draws older than it: it is a tail of the history (most recent first) that
\* starts after the labelled draw.
C24_ContextPrecedesLabelledDraw ==
    (probe.op = "training_data" /\ probe.out # Pending) =>
        \A j \in DOMAIN probe.out.samples :
            LET sample == probe.out.samples[j]
                position == j + 1
            IN  /\ sample.draw = probe.history[position]
                /\ \E older \in position..Len(probe.history) :
                      sample.context = SubSeq(probe.history, older + 1, Len(probe.history))

\* C29: after training, for every pair of consecutive draws of the history the table
\* keyed by the number set of the earlier draw counts each number of the later draw, no
\* pair being skipped; the score of a number is (count + alpha) / (state total + alpha *
\* range size), which is uniform for a set the training never saw.
C29_TransitionsCountedAndSmoothed ==
    (probe.op = "markov" /\ probe.out # Pending /\ probe.out.model.trained) =>
        LET oldest_first == [i \in 1..Len(probe.history) |->
                                probe.history[Len(probe.history) + 1 - i]]
            pairs == 2..Len(oldest_first)
            counts == probe.out.model.transition_counts
            totals == probe.out.model.total_transitions
            asked == SetOf(probe.last_draw)
            seen == asked \in DOMAIN counts
        IN  /\ \A c \in pairs :
                  LET key == SetOf(oldest_first[c - 1])
                  IN  /\ key \in DOMAIN counts
                      /\ \A num \in 1..55 :
                            counts[key][num] =
                                Cardinality({ d \in pairs :
                                                /\ SetOf(oldest_first[d - 1]) = key
                                                /\ num \in SetOf(oldest_first[d]) })
            /\ ~probe.out.scored.raises
            /\ \A num \in 1..55 :
                  LET count == IF seen THEN counts[asked][num] ELSE 0
                      total == IF seen THEN totals[asked] ELSE 0
                      score == probe.out.scored.scores[num]
                  IN  score.num * (100 * total + 55) = score.den * (100 * count + 1)

\* C21: for every non-empty history and every combination of loaded and missing
\* lstm, xgboost and markov models, predict returns six distinct numbers of 1..55 in
\* ascending order and raises nothing; a missing lstm or xgboost model is scored by the
\* statistical score (mean of the frequency, gap and position scores), a missing markov
\* model by the uniform map.
C21_PredictReturnsPicksWithFallbacks ==
    (probe.op = "predict" /\ probe.out # Pending /\ Len(probe.history) > 0) =>
        LET out == probe.out
            history == probe.history
            numbers == out.numbers
            f == FrequencyScores(history, 1, 55).scores
            g == GapScores(history, 1, 55).scores
            p == PositionScores(history, 1, 55).scores
            stat == [n \in 1..55 |-> (Fixed(f[n]) + Fixed(g[n]) + Fixed(p[n])) \div 3]
        IN  /\ ~out.raises
            /\ ~out.diverges
            /\ Len(numbers) = 6
            /\ \A i \in DOMAIN numbers : numbers[i] \in 1..55
            /\ \A i, j \in DOMAIN numbers : i < j => numbers[i] < numbers[j]
            /\ ~probe.ready.lstm => out.lstm_scores = stat
            /\ ~probe.ready.xgboost => out.xgb_scores = stat
            /\ ~probe.ready.markov =>
                  out.markov_scores = [n \in 1..55 |-> ScoreScale \div 55]

\* No model is loaded and the history holds two draws: all three fallbacks were taken
\* and six numbers came back.
C21_Witness ==
    /\ probe.op = "predict" /\ probe.out # Pending
    /\ Len(probe.history) = 2
    /\ ~probe.ready.lstm /\ ~probe.ready.xgboost /\ ~probe.ready.markov
    /\ ~probe.out.raises
    /\ Len(probe.out.numbers) = 6

\* C22: predict raises on an empty history, whichever models are loaded; and a
\* generate_prediction call for a variant with no stored draw does not go on to the
\* cycle lookup: it raises to its caller, and cycles and predictions are the same after
\* the call as before it.
C22_PredictRaisesOnEmpty ==
    \A ready \in ReadyFlags : predict(<<>>, 6, ready).raises

C22_Step ==
    \A p \in Procs, lt \in LotteryTypes :
        LET history == { r \in lottery_results : r.lottery_type = lt }
            proceeds == /\ pc'[p] = "goc_active"
                        /\ call'[p].op = "generate"
                        /\ call'[p].lottery_type = lt
            returns == /\ ret'[p] # ret[p]
                       /\ ret'[p].op = "generate"
                       /\ ret'[p].lottery_type = lt
        IN  (Quiet(p) /\ history = {}) =>
                /\ ~proceeds
                /\ returns =>
                      /\ pc'[p] = "done"
                      /\ ret'[p].kind = "raised"
                      /\ cycles' = cycles
                      /\ predictions' = predictions

C22_EmptyHistoryFailsFast == []C22_PredictRaisesOnEmpty /\ [][C22_Step]_vars

\* A prediction was generated for one variant, opening a cycle; a call for the other
\* variant, which has no stored draw, raised.
C22_Witness ==
    \E p \in Procs, lt \in LotteryTypes :
        /\ pc[p] = "done"
        /\ ret[p] = RaisedIn("generate", lt)
        /\ { r \in lottery_results : r.lottery_type = lt } = {}
        /\ lottery_results # {}
        /\ DOMAIN cycles # {}
        /\ BagCardinality(predictions) >= 1

====
